---- MODULE Spec2Model ----
(***************************************************************************)
(* A model of the model-dissection engine of AMPLIFAI                      *)
(* (src/model_dissection_engine.py):                                       *)
(*   - ModelDissector.extract_gguf_weights and its helpers, which decode   *)
(*     a GGUF container from a byte stream;                                *)
(*   - ModelDissector.merge_extracted_weights, the weight merger;          *)
(*   - SuperModelArchitect, the capability matrix, the routing of the six  *)
(*     domains and the fusion weights;                                     *)
(*   - main, the run over the discovered paths;                            *)
(*   - ModelDissector.score_response and extract_capabilities, the probes  *)
(*     of the six domains.                                                 *)
(* Bytes are the integers 0..255, a file is a sequence of bytes, Python    *)
(* values are tagged pairs <<kind, value>>.                                *)
(***************************************************************************)
EXTENDS Integers, Sequences, FiniteSets, TLC

VARIABLES
    \* ---- extract_gguf_weights ----
    container,      \* the structure the file was written from (kvs, tensors)
    stream,         \* the bytes of the file
    missing,        \* how many bytes of the written file the file lacks
    pos,            \* f.tell()
    pc,             \* where extract_gguf_weights stands
    status,         \* "running", "invalid", "failed" or "ok"
    header,         \* version, tensor_count, metadata_kv_count once read
    metadata,       \* the dict _extract_metadata builds
    kv_done,        \* iterations of the loop of _extract_metadata completed
    tensor_info,    \* the list _extract_tensor_info builds
    td_done,        \* iterations of the loop of _extract_tensor_data completed
    layers,         \* the dict _extract_tensor_data builds
    weights_data,   \* the dict extract_gguf_weights returns
    closed,         \* f.closed
    \* ---- merge_extracted_weights ----
    all_weights,    \* the argument: per model, the names of weights['layers']
    merged,         \* how many (model, layer) pairs the loops have visited
    layer_counter,  \* layer_counter
    unified_model,  \* unified_model
    \* ---- SuperModelArchitect ----
    signatures,         \* the argument of analyze_dissection_results
    arch_status,        \* "fresh", "designed" or "raised"
    model_signatures,   \* self.model_signatures, in insertion order
    capability_matrix,  \* self.capability_matrix
    architecture_blueprint, \* self.architecture_blueprint
    \* ---- main ----
    scratch,            \* the temporary directories that exist
    walked,             \* the paths in the order os.walk found them
    model_paths,        \* what discover_models returned
    path_idx,           \* iterations of the loop of main completed
    run_signatures,     \* signatures of main
    dissection_cache,   \* dissector.dissection_cache
    run_status,         \* where main stands, or how it ended
    blueprint_saved,    \* whether save_supermodel_blueprint wrote the file
    files,              \* the files written so far: what each path holds
    emitted,            \* per run that saved a blueprint, the path and the data
    \* ---- score_response ----
    scored_domain,      \* the argument domain
    scored_response,    \* the argument response
    returned,           \* what score_response returned, <<>> before the call
    \* ---- extract_capabilities ----
    model,              \* the callable: which prompts raise, what it answers
    calls,              \* the prompts model was called with, in order
    domains_done,       \* iterations of the loop over capability_tests completed
    scores,             \* scores of the current domain
    activation_patterns,\* activation_patterns of the current domain
    capabilities,       \* capabilities
    probe_status        \* "idle", "probing" or "returned"

decodeVars == <<container, stream, missing, pos, pc, status, header, metadata, kv_done,
                tensor_info, td_done, layers, weights_data, closed>>

mergeVars == <<all_weights, merged, layer_counter, unified_model>>

archVars == <<signatures, arch_status, model_signatures, capability_matrix,
              architecture_blueprint>>

runVars == <<scratch, walked, model_paths, path_idx, run_signatures, dissection_cache, run_status,
             blueprint_saved, files, emitted>>

scoreVars == <<scored_domain, scored_response, returned>>

probeVars == <<model, calls, domains_done, scores, activation_patterns,
               capabilities, probe_status>>

vars == <<decodeVars, mergeVars, archVars, runVars, scoreVars, probeVars>>

\* What the actions of a component leave alone.  (The architect's actions
\* are steps of main as well, so its frame leaves runVars to the caller.)
decodeFrame == <<mergeVars, archVars, runVars, scoreVars, probeVars>>

mergeFrame == <<decodeVars, archVars, runVars, scoreVars, probeVars>>

archFrame == <<decodeVars, mergeVars, scoreVars, probeVars>>

runFrame == <<decodeVars, mergeVars, scoreVars, probeVars>>

scoreFrame == <<decodeVars, mergeVars, archVars, runVars, probeVars>>

probeFrame == <<decodeVars, mergeVars, archVars, runVars, scoreVars>>

-----------------------------------------------------------------------------
(* Bounds of the model. *)

\* The most metadata entries of a generated container.
MaxKV == 2
\* The most tensor descriptors of a generated container.
MaxTensors == 2
\* The most dimensions of a generated tensor descriptor.
MaxDims == 2
\* The most models whose weights are merged.
MaxModels == 2
\* The most layers of all merged models together.
MaxLayers == 3
\* The most signatures handed to analyze_dissection_results.
MaxSigs == 2
\* The most paths discover_models returns.
MaxPaths == 2
\* The most GGUF files inside a tar archive.
MaxMembers == 2
\* The most runs of main that save a blueprint.
MaxRuns == 2
\* The most characters of a generated short response.
MaxResponse == 2

-----------------------------------------------------------------------------
(* Arithmetic helpers.  Python integers are unbounded; the model's are      *)
(* 32-bit, so a length or count of 2^31 or more saturates at Huge, which    *)
(* is more than any file of the model holds.                                *)

Huge == 127 * 16777216 + 16777215

Min(a, b) == IF a <= b THEN a ELSE b
Max(a, b) == IF a >= b THEN a ELSE b

SatMul(a, b) ==
    IF a = 0 \/ b = 0 THEN 0
    ELSE IF a > Huge \div b THEN Huge
    ELSE a * b

SatAdd(a, b) == IF a > Huge - b THEN Huge ELSE a + b

RECURSIVE SumSeq(_)
SumSeq(s) == IF s = <<>> THEN 0 ELSE Head(s) + SumSeq(Tail(s))

RECURSIVE Concat(_)
Concat(ss) == IF ss = <<>> THEN <<>> ELSE Head(ss) \o Concat(Tail(ss))

-----------------------------------------------------------------------------
(* struct.unpack of little-endian integers, and f.read.                     *)

\* struct.unpack('<B' | '<H' | '<I' | '<Q', b): the unsigned value of the
\* bytes, least significant first.
RECURSIVE unpack_unsigned(_)
unpack_unsigned(b) ==
    IF b = <<>> THEN 0
    ELSE LET hi == unpack_unsigned(Tail(b))
         IN  IF hi >= 8388608 THEN Huge ELSE Head(b) + 256 * hi

\* A variant of unpack_signed that reads the bytes as unsigned.
unpack_signed_as_unsigned(b) == unpack_unsigned(b)

\* struct.unpack('<b' | '<h' | '<i', b): the two's complement value.
RECURSIVE unpack_signed(_)
unpack_signed(b) ==
    IF Len(b) = 1
    THEN (IF Head(b) >= 128 THEN Head(b) - 256 ELSE Head(b))
    ELSE Head(b) + 256 * unpack_signed(Tail(b))

\* struct.unpack('<f', b): the sign, the biased exponent and the mantissa of
\* the IEEE single the four bytes hold (the float Python returns has exactly
\* this value).
unpack_float(b) ==
    <<b[4] \div 128,
      (b[4] % 128) * 2 + b[3] \div 128,
      (b[3] % 128) * 65536 + b[2] * 256 + b[1]>>

\* struct.unpack('<e', b): the same for an IEEE half.
unpack_half(b) ==
    <<b[2] \div 128, (b[2] % 128) \div 4, (b[2] % 4) * 256 + b[1]>>

\* f.read(n) at cursor p of file s: the bytes that are there, at most n.
read(s, p, n) == SubSeq(s, p + 1, Min(SatAdd(p, n), Len(s)))

\* The cursor after f.read(n) at p.
tell(s, p, n) == Max(p, Min(SatAdd(p, n), Len(s)))

\* bytes.decode('utf-8').  UTF8Valid is whether decode returns, and
\* UTF8Decode the code points of the string it returns.
UTF8Width(b1) ==
    IF b1 < 128 THEN 1
    ELSE IF b1 >= 194 /\ b1 <= 223 THEN 2
    ELSE IF b1 >= 224 /\ b1 <= 239 THEN 3
    ELSE IF b1 >= 240 /\ b1 <= 244 THEN 4
    ELSE 0

IsCont(x) == x >= 128 /\ x <= 191

UTF8Second(b1, b2) ==
    CASE b1 = 224 -> b2 >= 160 /\ b2 <= 191
      [] b1 = 237 -> b2 >= 128 /\ b2 <= 159
      [] b1 = 240 -> b2 >= 144 /\ b2 <= 191
      [] b1 = 244 -> b2 >= 128 /\ b2 <= 143
      [] OTHER    -> IsCont(b2)

RECURSIVE UTF8Valid(_)
UTF8Valid(b) ==
    IF b = <<>> THEN TRUE
    ELSE LET w == UTF8Width(b[1])
         IN  /\ w > 0
             /\ Len(b) >= w
             /\ w >= 2 => UTF8Second(b[1], b[2])
             /\ \A i \in 3..w : IsCont(b[i])
             /\ UTF8Valid(SubSeq(b, w + 1, Len(b)))

UTF8Point(b, w) ==
    CASE w = 1 -> b[1]
      [] w = 2 -> (b[1] - 192) * 64 + (b[2] - 128)
      [] w = 3 -> (b[1] - 224) * 4096 + (b[2] - 128) * 64 + (b[3] - 128)
      [] w = 4 -> (b[1] - 240) * 262144 + (b[2] - 128) * 4096
                  + (b[3] - 128) * 64 + (b[4] - 128)

RECURSIVE UTF8Decode(_)
UTF8Decode(b) ==
    IF b = <<>> THEN <<>>
    ELSE LET w == UTF8Width(b[1])
         IN  <<UTF8Point(b, w)>> \o UTF8Decode(SubSeq(b, w + 1, Len(b)))

-----------------------------------------------------------------------------
(* _read_metadata_value, _extract_metadata, _extract_tensor_info and        *)
(* _extract_tensor_data.  A result with ok = FALSE is the exception         *)
(* (struct.error on a short buffer, UnicodeDecodeError) the call raises.    *)

\* A variant of ValueWidth that takes the 16-bit values for 32-bit ones.
ValueWidthWide(value_type) ==
    CASE value_type \in {0, 1, 7}       -> 1
      [] value_type \in {2, 3, 4, 5, 6} -> 4
      [] OTHER                          -> 0

\* The width struct.unpack requires for the fixed-width value types.
ValueWidth(value_type) ==
    CASE value_type \in {0, 1, 7} -> 1
      [] value_type \in {2, 3}    -> 2
      [] value_type \in {4, 5, 6} -> 4
      [] OTHER                    -> 0

Raised(p) == [ok |-> FALSE, value |-> <<"none", 0>>, pos |-> p]

\* A length-prefixed string: struct.unpack('<Q', f.read(8)) and then
\* f.read(len).decode('utf-8'), which decodes whatever f.read returned.
read_string(s, p) ==
    LET lb == read(s, p, 8)
        p1 == tell(s, p, 8)
    IN  IF Len(lb) # 8 THEN Raised(p1)
        ELSE LET n    == unpack_unsigned(lb)
                 body == read(s, p1, n)
                 p2   == tell(s, p1, n)
             IN  IF UTF8Valid(body)
                   THEN [ok |-> TRUE, value |-> <<"str", UTF8Decode(body)>>,
                         pos |-> p2]
                   ELSE Raised(p2)

\* An unknown value_type returns None and reads nothing.
read_metadata_value(s, p, value_type) ==
    IF value_type = 8 THEN read_string(s, p)
    ELSE IF value_type \in 0..7
    THEN LET w == ValueWidth(value_type)
             b == read(s, p, w)
             q == tell(s, p, w)
         IN  IF Len(b) # w THEN Raised(q)
             ELSE [ok |-> TRUE, pos |-> q, value |->
                   CASE value_type \in {0, 2, 4} -> <<"int", unpack_unsigned(b)>>
                     [] value_type \in {1, 3, 5} -> <<"int", unpack_signed(b)>>
                     [] value_type = 6           -> <<"float", unpack_float(b)>>
                     [] value_type = 7           -> <<"bool", b[1] # 0>>]
    ELSE [ok |-> TRUE, value |-> <<"none", 0>>, pos |-> p]

\* One iteration of the loop of _extract_metadata: key, value type, value.
extract_metadata_entry(s, p) ==
    LET k == read_string(s, p)
    IN  IF ~k.ok THEN [ok |-> FALSE, pos |-> k.pos]
        ELSE LET tb == read(s, k.pos, 4)
                 p1 == tell(s, k.pos, 4)
             IN  IF Len(tb) # 4 THEN [ok |-> FALSE, pos |-> p1]
                 ELSE LET v == read_metadata_value(s, p1, unpack_unsigned(tb))
                      IN  IF ~v.ok THEN [ok |-> FALSE, pos |-> v.pos]
                          ELSE [ok |-> TRUE, pos |-> v.pos,
                                key |-> k.value[2], value |-> v.value]

\* The dims loop of _extract_tensor_info: n_dims reads of 8 bytes each, the
\* first short one raising.
RECURSIVE read_dims(_, _, _)
read_dims(s, p, n) ==
    IF n = 0 THEN [ok |-> TRUE, dims |-> <<>>, pos |-> p]
    ELSE LET b == read(s, p, 8)
             q == tell(s, p, 8)
         IN  IF Len(b) # 8 THEN [ok |-> FALSE, dims |-> <<>>, pos |-> q]
             ELSE LET r == read_dims(s, q, n - 1)
                  IN  [ok |-> r.ok, pos |-> r.pos,
                       dims |-> <<unpack_unsigned(b)>> \o r.dims]

\* One iteration of the loop of _extract_tensor_info.
extract_tensor_info_entry(s, p) ==
    LET nm == read_string(s, p)
    IN  IF ~nm.ok THEN [ok |-> FALSE, pos |-> nm.pos]
        ELSE LET nb == read(s, nm.pos, 4)
                 p1 == tell(s, nm.pos, 4)
             IN  IF Len(nb) # 4 THEN [ok |-> FALSE, pos |-> p1]
                 ELSE LET d  == read_dims(s, p1, unpack_unsigned(nb))
                          tb == read(s, d.pos, 4)
                          p2 == tell(s, d.pos, 4)
                          ob == read(s, p2, 8)
                          p3 == tell(s, p2, 8)
                      IN  IF ~d.ok THEN [ok |-> FALSE, pos |-> d.pos]
                          ELSE IF Len(tb) # 4 THEN [ok |-> FALSE, pos |-> p2]
                          ELSE IF Len(ob) # 8 THEN [ok |-> FALSE, pos |-> p3]
                          ELSE [ok |-> TRUE, pos |-> p3, tensor |->
                                [name   |-> nm.value[2],
                                 dims   |-> d.dims,
                                 type   |-> unpack_unsigned(tb),
                                 offset |-> unpack_unsigned(ob)]]

\* size = 1; for dim in dims: size *= dim
RECURSIVE tensor_size(_)
tensor_size(dims) ==
    IF dims = <<>> THEN 1 ELSE SatMul(Head(dims), tensor_size(Tail(dims)))

\* The values of consecutive groups of w bytes (the last group may be short).
RECURSIVE Groups(_, _)
Groups(b, w) ==
    IF b = <<>> THEN <<>>
    ELSE <<SubSeq(b, 1, Min(w, Len(b)))>> \o Groups(SubSeq(b, w + 1, Len(b)), w)

\* A variant of extract_tensor_data_entry that reads a tensor of any other
\* type as halves.
extract_tensor_data_entry_any(s, tensor) ==
    LET size == tensor_size(tensor.dims)
        p    == tensor.offset
    IN  IF tensor.type = 0
        THEN LET b == read(s, p, SatMul(size, 4))
             IN  IF Len(b) # SatMul(size, 4)
                   THEN [outcome |-> "raised", pos |-> tell(s, p, SatMul(size, 4))]
                   ELSE [outcome |-> "stored", pos |-> tell(s, p, SatMul(size, 4)),
                         data |-> [i \in 1..size |->
                                     unpack_float(SubSeq(b, 4 * i - 3, 4 * i))]]
        ELSE LET raw == read(s, p, SatMul(size, 2))
                 g   == Groups(raw, 2)
             IN  IF \E i \in 1..Len(g) : Len(g[i]) # 2
                   THEN [outcome |-> "raised", pos |-> tell(s, p, SatMul(size, 2))]
                   ELSE [outcome |-> "stored", pos |-> tell(s, p, SatMul(size, 2)),
                         data |-> [i \in 1..Len(g) |-> unpack_half(g[i])]]

\* One iteration of the loop of _extract_tensor_data: "stored" with the
\* tensor's data, "skipped" (the continue of an unsupported type) or
\* "raised" (the exception the loop body catches and logs).
extract_tensor_data_entry(s, tensor) ==
    LET size == tensor_size(tensor.dims)
        p    == tensor.offset
    IN  IF tensor.type = 0
        THEN LET b == read(s, p, SatMul(size, 4))
             IN  IF Len(b) # SatMul(size, 4)
                   THEN [outcome |-> "raised", pos |-> tell(s, p, SatMul(size, 4))]
                   ELSE [outcome |-> "stored", pos |-> tell(s, p, SatMul(size, 4)),
                         data |-> [i \in 1..size |->
                                     unpack_float(SubSeq(b, 4 * i - 3, 4 * i))]]
        ELSE IF tensor.type = 1
        THEN LET raw == read(s, p, SatMul(size, 2))
                 g   == Groups(raw, 2)
             IN  IF \E i \in 1..Len(g) : Len(g[i]) # 2
                   THEN [outcome |-> "raised", pos |-> tell(s, p, SatMul(size, 2))]
                   ELSE [outcome |-> "stored", pos |-> tell(s, p, SatMul(size, 2)),
                         data |-> [i \in 1..Len(g) |-> unpack_half(g[i])]]
        ELSE [outcome |-> "skipped", pos |-> p]

\* _extract_tensor_data as a whole: the layers it returns for a table.
RECURSIVE extract_tensor_data(_, _, _)
extract_tensor_data(s, table, acc) ==
    IF table = <<>> THEN acc
    ELSE LET tensor == Head(table)
             r      == extract_tensor_data_entry(s, tensor)
         IN  extract_tensor_data(s, Tail(table),
                 IF r.outcome = "stored"
                 THEN [k \in DOMAIN acc \cup {tensor.name} |->
                          IF k = tensor.name
                          THEN [data |-> r.data, shape |-> tensor.dims,
                                type |-> tensor.type]
                          ELSE acc[k]]
                 ELSE acc)

-----------------------------------------------------------------------------
(* The files the decoder is run on: containers written in the layout       *)
(* extract_gguf_weights reads (magic, version, tensor_count,               *)
(* metadata_kv_count, the metadata entries, the tensor table, the payload).*)

\* struct.pack of an integer in w bytes, least significant first (two's
\* complement for a negative one).
RECURSIVE pack_int(_, _)
pack_int(n, w) ==
    IF w = 0 THEN <<>> ELSE <<n % 256>> \o pack_int(n \div 256, w - 1)

\* struct.pack('<f', x) of the single with sign, exponent, mantissa f.
pack_float(f) ==
    <<f[3] % 256, (f[3] \div 256) % 256,
      (f[2] % 2) * 128 + f[3] \div 65536, f[1] * 128 + f[2] \div 2>>

\* str.encode('utf-8') of a string given by its code points (below 2048).
RECURSIVE UTF8Encode(_)
UTF8Encode(cps) ==
    IF cps = <<>> THEN <<>>
    ELSE (IF Head(cps) < 128 THEN <<Head(cps)>>
          ELSE <<192 + Head(cps) \div 64, 128 + (Head(cps) % 64)>>)
         \o UTF8Encode(Tail(cps))

EncodeString(cps) == pack_int(Len(UTF8Encode(cps)), 8) \o UTF8Encode(cps)

\* The bytes of a metadata value of type tag; a value of kind "raw" is the
\* bytes of a value of a type the decoder does not know.
EncodeValue(tag, v) ==
    CASE tag \in {0, 1} -> pack_int(v[2], 1)
      [] tag \in {2, 3} -> pack_int(v[2], 2)
      [] tag \in {4, 5} -> pack_int(v[2], 4)
      [] tag = 6        -> pack_float(v[2])
      [] tag = 7        -> <<IF v[2] THEN 1 ELSE 0>>
      [] tag = 8        -> EncodeString(v[2])
      [] OTHER          -> v[2]

EncodeKV(e) == EncodeString(e.key) \o pack_int(e.tag, 4) \o EncodeValue(e.tag, e.val)

EncodeTensor(t) ==
    EncodeString(t.name) \o pack_int(Len(t.dims), 4)
    \o Concat([i \in 1..Len(t.dims) |-> pack_int(t.dims[i], 8)])
    \o pack_int(t.type, 4) \o pack_int(t.offset, 8)

\* b'GGUF'
GGUF == <<71, 71, 85, 70>>

EncodeHeader(magic, c) ==
    magic \o pack_int(3, 4) \o pack_int(Len(c.tensors), 8) \o pack_int(Len(c.kvs), 8)

EncodeMetadata(c) == Concat([i \in 1..Len(c.kvs) |-> EncodeKV(c.kvs[i])])

EncodeTable(c) == Concat([i \in 1..Len(c.tensors) |-> EncodeTensor(c.tensors[i])])

\* The payload region: eight bytes, two singles or four halves.
Payload == <<0, 0, 192, 63, 0, 60, 0, 192>>

EncodeContainer(magic, c) ==
    EncodeHeader(magic, c) \o EncodeMetadata(c) \o EncodeTable(c) \o Payload

\* The keys and the values of the generated metadata: one value of each of
\* the nine value types, chosen so that every byte of its encoding matters.
KeyPool == {<<97>>, <<233>>, <<98, 252>>}

KnownValues ==
    { <<0, <<"int", 200>>>>, <<1, <<"int", -3>>>>, <<2, <<"int", 513>>>>,
      <<3, <<"int", -2>>>>, <<4, <<"int", 16909060>>>>, <<5, <<"int", -70000>>>>,
      <<6, <<"float", <<1, 128, 2097152>>>>>>, <<7, <<"bool", TRUE>>>>,
      <<7, <<"bool", FALSE>>>>, <<8, <<"str", <<104, 233>>>>>> }

\* A value of GGUF type 10 (a 64-bit integer), which the decoder does not know.
UnknownValues == { <<10, <<"raw", <<5, 0, 0, 0, 0, 0, 0, 0>>>>>> }

Entries(values) ==
    {[key |-> k, tag |-> x[1], val |-> x[2]] : k \in KeyPool, x \in values}

\* The sequences of at most n elements of S.
SeqsUpTo(S, n) == UNION {[1..m -> S] : m \in 0..n}

\* The generated descriptor with n dimensions.
Descriptor(n) ==
    [name   |-> IF n % 2 = 0 THEN <<119>> ELSE <<119, 233>>,
     dims   |-> [i \in 1..n |-> i + 1],
     type   |-> n % 3,
     offset |-> 0]

Descriptors == {Descriptor(n) : n \in 0..MaxDims}

DistinctKeys(kvs) ==
    \A i, j \in 1..Len(kvs) : i # j => kvs[i].key # kvs[j].key

\* The metadata blocks of at most n entries with values drawn from values,
\* in every order of their keys.
MetadataBlocks(values, n) ==
    {x \in SeqsUpTo(Entries(values), n) : DistinctKeys(x)}

\* The generated containers: full metadata with at most one tensor, and at
\* most one metadata entry with a full tensor table.
Containers(values) ==
    {[kvs |-> k, tensors |-> t] :
        k \in MetadataBlocks(values, MaxKV), t \in SeqsUpTo(Descriptors, 1)}
    \cup
    {[kvs |-> k, tensors |-> t] :
        k \in MetadataBlocks(values, 1), t \in SeqsUpTo(Descriptors, MaxTensors)}

\* The containers that are cut short: at most one entry and one tensor.
SmallContainers(values) ==
    {[kvs |-> k, tensors |-> t] :
        k \in MetadataBlocks(values, 1), t \in SeqsUpTo(Descriptors, 1)}

\* Where the metadata block and the tensor table of the file of c end.
\* The magic, the version and the two counts.
HeaderEnd == 4 + 4 + 8 + 8
MetadataEnd(c) == Len(EncodeHeader(GGUF, c)) + Len(EncodeMetadata(c))
TableEnd(c) == MetadataEnd(c) + Len(EncodeTable(c))

\* The files whose tensors are read: one metadata entry, a table of at most
\* MaxTensors descriptors of the three shapes, the types F32, F16 and one
\* that is neither, and three declared offsets (the last past every file),
\* and a payload region of six singles: 1.0, 1.5, -2.0, 0.5, 3.0, -1.0.
TensorPayload ==
    <<0, 0, 128, 63,  0, 0, 192, 63,  0, 0, 0, 192,
      0, 0, 0, 63,    0, 0, 64, 64,   0, 0, 128, 191>>

TensorShapes == {<<2, 3>>, <<2>>, <<2, 0>>}

TensorOffsets == {0, 8, 1000}

TensorDescriptors ==
    {[name |-> <<119, 48 + t>>, dims |-> d, type |-> t, offset |-> o] :
        d \in TensorShapes, t \in 0..2, o \in TensorOffsets}

TensorContainers ==
    {[kvs |-> <<[key |-> <<97>>, tag |-> 4, val |-> <<"int", 16909060>>]>>,
      tensors |-> t] : t \in SeqsUpTo(TensorDescriptors, MaxTensors)}

EncodeTensorFile(c) ==
    EncodeHeader(GGUF, c) \o EncodeMetadata(c) \o EncodeTable(c) \o TensorPayload

-----------------------------------------------------------------------------
(* extract_gguf_weights as a state machine: one action per read of the      *)
(* header and per iteration of the three loops.                             *)

\* d[key] = value on a dict held as a function.
DictSet(d, key, value) ==
    [k \in DOMAIN d \cup {key} |-> IF k = key THEN value ELSE d[k]]

EmptyDict == <<>>

NoHeader == [version |-> -1, tensor_count |-> -1, metadata_kv_count |-> -1]

\* weights_data as extract_gguf_weights creates it.
EmptyWeights ==
    [layers |-> EmptyDict, embeddings |-> EmptyDict,
     attention_weights |-> EmptyDict, feed_forward_weights |-> EmptyDict,
     layer_norms |-> EmptyDict, vocab_embeddings |-> EmptyDict,
     architecture_metadata |-> EmptyDict]

\* The state on entry to extract_gguf_weights for the first n bytes of the
\* file s written from c.
Opened(c, s, n) ==
    /\ container = c
    /\ stream = SubSeq(s, 1, n)
    /\ missing = Len(s) - n
    /\ pos = 0
    /\ pc = "magic"
    /\ status = "running"
    /\ header = NoHeader
    /\ metadata = EmptyDict
    /\ kv_done = 0
    /\ tensor_info = <<>>
    /\ td_done = 0
    /\ layers = EmptyDict
    /\ weights_data = EmptyWeights
    /\ closed = FALSE

\* A variant of with_exit that closes the file where the function returns
\* and not where an exception leaves the block.
with_exit_on_return(st) == st \in {"invalid", "ok"}

\* with open(model_path, 'rb') as f: the file is closed once the block is
\* left, by a return or by an exception.
with_exit(st) == st # "running"

\* The except clause of extract_gguf_weights: log, return weights_data.
Fail(p) ==
    /\ pos' = p
    /\ status' = "failed"
    /\ pc' = "done"

\* A variant of ReadMagic that does not compare the four bytes.
ReadMagicUnchecked ==
    /\ pc = "magic"
    /\ pos' = tell(stream, pos, 4)
    /\ status' = status
    /\ pc' = "header"
    /\ UNCHANGED decodeFrame
    /\ UNCHANGED <<container, stream, missing, header, metadata, kv_done, tensor_info,
                   td_done, layers, weights_data>>
    /\ closed' = with_exit(status')

\* magic = f.read(4); if magic != b'GGUF': log and return weights_data
ReadMagic ==
    /\ pc = "magic"
    /\ pos' = tell(stream, pos, 4)
    /\ IF read(stream, pos, 4) # GGUF
         THEN status' = "invalid" /\ pc' = "done"
         ELSE status' = status /\ pc' = "header"
    /\ UNCHANGED decodeFrame
    /\ UNCHANGED <<container, stream, missing, header, metadata, kv_done, tensor_info,
                   td_done, layers, weights_data>>
    /\ closed' = with_exit(status')

\* version, tensor_count, metadata_kv_count
ReadHeader ==
    /\ pc = "header"
    /\ LET vb == read(stream, pos, 4)
           p1 == tell(stream, pos, 4)
           tb == read(stream, p1, 8)
           p2 == tell(stream, p1, 8)
           kb == read(stream, p2, 8)
           p3 == tell(stream, p2, 8)
       IN  IF Len(vb) # 4 THEN Fail(p1) /\ header' = header
           ELSE IF Len(tb) # 8 THEN Fail(p2) /\ header' = header
           ELSE IF Len(kb) # 8 THEN Fail(p3) /\ header' = header
           ELSE /\ header' = [version |-> unpack_unsigned(vb),
                              tensor_count |-> unpack_unsigned(tb),
                              metadata_kv_count |-> unpack_unsigned(kb)]
                /\ pos' = p3
                /\ pc' = "metadata"
                /\ status' = status
    /\ UNCHANGED decodeFrame
    /\ UNCHANGED <<container, stream, missing, metadata, kv_done, tensor_info, td_done,
                   layers, weights_data>>
    /\ closed' = with_exit(status')

\* One iteration of the loop of _extract_metadata.
ExtractMetadataEntry ==
    /\ pc = "metadata"
    /\ kv_done < header.metadata_kv_count
    /\ LET r == extract_metadata_entry(stream, pos)
       IN  IF ~r.ok THEN Fail(r.pos) /\ UNCHANGED <<metadata, kv_done>>
           ELSE /\ metadata' = DictSet(metadata, r.key, r.value)
                /\ kv_done' = kv_done + 1
                /\ pos' = r.pos
                /\ UNCHANGED <<pc, status>>
    /\ UNCHANGED decodeFrame
    /\ UNCHANGED <<container, stream, missing, header, tensor_info, td_done, layers,
                   weights_data>>
    /\ closed' = with_exit(status')

\* _extract_metadata returns: weights_data['architecture_metadata'] = metadata
ExtractMetadataDone ==
    /\ pc = "metadata"
    /\ kv_done >= header.metadata_kv_count
    /\ weights_data' = [weights_data EXCEPT !.architecture_metadata = metadata]
    /\ pc' = "tensor_info"
    /\ UNCHANGED decodeFrame
    /\ UNCHANGED <<container, stream, missing, pos, status, header, metadata, kv_done,
                   tensor_info, td_done, layers>>
    /\ closed' = with_exit(status')

\* One iteration of the loop of _extract_tensor_info.
ExtractTensorInfoEntry ==
    /\ pc = "tensor_info"
    /\ Len(tensor_info) < header.tensor_count
    /\ LET r == extract_tensor_info_entry(stream, pos)
       IN  IF ~r.ok THEN Fail(r.pos) /\ UNCHANGED tensor_info
           ELSE /\ tensor_info' = Append(tensor_info, r.tensor)
                /\ pos' = r.pos
                /\ UNCHANGED <<pc, status>>
    /\ UNCHANGED decodeFrame
    /\ UNCHANGED <<container, stream, missing, header, metadata, kv_done, td_done,
                   layers, weights_data>>
    /\ closed' = with_exit(status')

\* _extract_tensor_info returns.
ExtractTensorInfoDone ==
    /\ pc = "tensor_info"
    /\ Len(tensor_info) >= header.tensor_count
    /\ pc' = "tensor_data"
    /\ UNCHANGED decodeFrame
    /\ UNCHANGED <<container, stream, missing, pos, status, header, metadata, kv_done,
                   tensor_info, td_done, layers, weights_data>>
    /\ closed' = with_exit(status')

\* One iteration of the loop of _extract_tensor_data.
ExtractTensorDataEntry ==
    /\ pc = "tensor_data"
    /\ td_done < Len(tensor_info)
    /\ LET tensor == tensor_info[td_done + 1]
           r      == extract_tensor_data_entry(stream, tensor)
       IN  /\ pos' = r.pos
           /\ layers' = IF r.outcome = "stored"
                          THEN DictSet(layers, tensor.name,
                                       [data |-> r.data, shape |-> tensor.dims,
                                        type |-> tensor.type])
                          ELSE layers
    /\ td_done' = td_done + 1
    /\ UNCHANGED decodeFrame
    /\ UNCHANGED <<container, stream, missing, pc, status, header, metadata, kv_done,
                   tensor_info, weights_data>>
    /\ closed' = with_exit(status')

\* _extract_tensor_data returns: weights_data['layers'] = layers, and
\* extract_gguf_weights returns weights_data.
ExtractTensorDataDone ==
    /\ pc = "tensor_data"
    /\ td_done >= Len(tensor_info)
    /\ weights_data' = [weights_data EXCEPT !.layers = layers]
    /\ status' = "ok"
    /\ pc' = "done"
    /\ UNCHANGED decodeFrame
    /\ UNCHANGED <<container, stream, missing, pos, header, metadata, kv_done,
                   tensor_info, td_done, layers>>
    /\ closed' = with_exit(status')

-----------------------------------------------------------------------------
(* merge_extracted_weights.  A layer name is the sequence of its            *)
(* characters; the layer_data of a layer is the pair <<model_idx, name>>    *)
(* that says which input tensor it is.  The keys the f-strings build are    *)
(* held as tuples: "model_{idx}_{name}" is <<"model", idx, name>>,          *)
(* "unified_attn_{n}" is <<"unified_attn", n>>, and so on.                  *)

\* str.lower() on a character.
LowerChar(ch) ==
    CASE ch = "A" -> "a" [] ch = "B" -> "b" [] ch = "C" -> "c" [] ch = "D" -> "d"
      [] ch = "E" -> "e" [] ch = "F" -> "f" [] ch = "G" -> "g" [] ch = "H" -> "h"
      [] ch = "I" -> "i" [] ch = "J" -> "j" [] ch = "K" -> "k" [] ch = "L" -> "l"
      [] ch = "M" -> "m" [] ch = "N" -> "n" [] ch = "O" -> "o" [] ch = "P" -> "p"
      [] ch = "Q" -> "q" [] ch = "R" -> "r" [] ch = "S" -> "s" [] ch = "T" -> "t"
      [] ch = "U" -> "u" [] ch = "V" -> "v" [] ch = "W" -> "w" [] ch = "X" -> "x"
      [] ch = "Y" -> "y" [] ch = "Z" -> "z"
      [] OTHER -> ch

lower(name) == [i \in 1..Len(name) |-> LowerChar(name[i])]

\* sub in name
Contains(name, sub) ==
    \E i \in 1..(Len(name) - Len(sub) + 1) :
        SubSeq(name, i, i + Len(sub) - 1) = sub

\* A variant of BucketOf that tests 'norm' before 'attn' and 'attention'.
BucketOfNormFirst(layer_name) ==
    IF Contains(lower(layer_name), <<"e", "m", "b", "e", "d">>) THEN "embed"
    ELSE IF Contains(lower(layer_name), <<"n", "o", "r", "m">>) THEN "norm"
    ELSE IF \/ Contains(lower(layer_name), <<"a", "t", "t", "n">>)
            \/ Contains(lower(layer_name),
                        <<"a", "t", "t", "e", "n", "t", "i", "o", "n">>)
         THEN "attn"
    ELSE IF \/ Contains(lower(layer_name), <<"m", "l", "p">>)
            \/ Contains(lower(layer_name), <<"f", "f", "n">>)
         THEN "ffn"
    ELSE "other"

\* The branch of the if/elif chain of merge_extracted_weights a name takes.
BucketOf(layer_name) ==
    IF Contains(lower(layer_name), <<"e", "m", "b", "e", "d">>) THEN "embed"
    ELSE IF \/ Contains(lower(layer_name), <<"a", "t", "t", "n">>)
            \/ Contains(lower(layer_name),
                        <<"a", "t", "t", "e", "n", "t", "i", "o", "n">>)
         THEN "attn"
    ELSE IF \/ Contains(lower(layer_name), <<"m", "l", "p">>)
            \/ Contains(lower(layer_name), <<"f", "f", "n">>)
         THEN "ffn"
    ELSE IF Contains(lower(layer_name), <<"n", "o", "r", "m">>) THEN "norm"
    ELSE "other"

\* unified_model as merge_extracted_weights creates it (unified_vocabulary
\* is a set, the others dicts).
EmptyUnified ==
    [embedding_layers |-> EmptyDict, transformer_blocks |-> EmptyDict,
     attention_layers |-> EmptyDict, feed_forward_layers |-> EmptyDict,
     output_layers |-> EmptyDict, unified_vocabulary |-> {},
     layer_routing_map |-> EmptyDict]

\* The (model_idx, layer_name) pairs in the order the two loops visit them.
\* A model whose weights are empty or have no 'layers' is passed over by the
\* continue, as a model with no layer is: it takes an index and gives no pair.
RECURSIVE ItemsFrom(_, _)
ItemsFrom(weights, model_idx) ==
    IF weights = <<>> THEN <<>>
    ELSE [i \in 1..Len(Head(weights)) |-> <<model_idx, Head(weights)[i]>>]
         \o ItemsFrom(Tail(weights), model_idx + 1)

Items(weights) == ItemsFrom(weights, 0)

\* The pair the loops visit next.
Current == Items(all_weights)[merged + 1]

Visit(bucket) ==
    /\ merged < Len(Items(all_weights))
    /\ BucketOf(Current[2]) = bucket
    /\ merged' = merged + 1
    /\ UNCHANGED all_weights
    /\ UNCHANGED mergeFrame

\* unified_model['embedding_layers'][f"model_{model_idx}_{layer_name}"] = layer_data
MergeEmbedding ==
    /\ Visit("embed")
    /\ unified_model' = [unified_model EXCEPT !.embedding_layers =
          DictSet(@, <<"model", Current[1], Current[2]>>, Current)]
    /\ UNCHANGED layer_counter

\* unified_model['attention_layers'][f"unified_attn_{layer_counter}"] = layer_data
\* layer_counter += 1
MergeAttention ==
    /\ Visit("attn")
    /\ unified_model' = [unified_model EXCEPT !.attention_layers =
          DictSet(@, <<"unified_attn", layer_counter>>, Current)]
    /\ layer_counter' = layer_counter + 1

\* unified_model['feed_forward_layers'][f"unified_ffn_{layer_counter}"] = layer_data
MergeFeedForward ==
    /\ Visit("ffn")
    /\ unified_model' = [unified_model EXCEPT !.feed_forward_layers =
          DictSet(@, <<"unified_ffn", layer_counter>>, Current)]
    /\ UNCHANGED layer_counter

\* unified_model['transformer_blocks'][f"norm_{model_idx}_{layer_name}"] = layer_data
MergeNorm ==
    /\ Visit("norm")
    /\ unified_model' = [unified_model EXCEPT !.transformer_blocks =
          DictSet(@, <<"norm", Current[1], Current[2]>>, Current)]
    /\ UNCHANGED layer_counter

\* unified_model['transformer_blocks'][f"block_{layer_counter}_{layer_name}"] = layer_data
\* layer_counter += 1
MergeBlock ==
    /\ Visit("other")
    /\ unified_model' = [unified_model EXCEPT !.transformer_blocks =
          DictSet(@, <<"block", layer_counter, Current[2]>>, Current)]
    /\ layer_counter' = layer_counter + 1

MergeNext ==
    \/ MergeEmbedding
    \/ MergeAttention
    \/ MergeFeedForward
    \/ MergeNorm
    \/ MergeBlock

\* The layer names of the merged models.
LayerNames ==
    { <<"t", "o", "k", "_", "e", "m", "b", "e", "d">>,
      <<"a", "t", "t", "n", "_", "q">>,
      <<"A", "t", "t", "e", "n", "t", "i", "o", "n">>,
      <<"f", "f", "n", "_", "u", "p">>,
      <<"M", "L", "P">>,
      <<"n", "o", "r", "m">>,
      <<"a", "t", "t", "n", "_", "n", "o", "r", "m">>,
      <<"o", "u", "t">> }

\* The sequences of at most n distinct layer names: the keys of a dict, in
\* insertion order.
LayerDicts(n) ==
    {x \in SeqsUpTo(LayerNames, n) : \A i, j \in 1..Len(x) : i # j => x[i] # x[j]}

\* The lists of m models with at most n layers together.
RECURSIVE WeightLists(_, _)
WeightLists(m, n) ==
    IF m = 0 THEN {<<>>}
    ELSE UNION {{<<w>> \o rest : rest \in WeightLists(m - 1, n - Len(w))} :
                    w \in LayerDicts(n)}

MergeInit ==
    /\ all_weights \in UNION {WeightLists(m, MaxLayers) : m \in 0..MaxModels}
    /\ merged = 0
    /\ layer_counter = 0
    /\ unified_model = EmptyUnified

MergeIdle ==
    /\ all_weights = <<>>
    /\ merged = 0
    /\ layer_counter = 0
    /\ unified_model = EmptyUnified

-----------------------------------------------------------------------------
(* SuperModelArchitect.  A capability strength is held in tenths (9 is 0.9) *)
(* and an entry of signature.strengths in twentieths (identify_strengths    *)
(* scores len(response) / 20); a fusion weight is an exact fraction         *)
(* <<numerator, denominator>> in lowest terms.  An insertion-ordered dict   *)
(* whose order the code depends on is a sequence of <<key, value>> pairs.   *)

RECURSIVE GCD(_, _)
GCD(a, b) == IF b = 0 THEN a ELSE GCD(b, a % b)

\* The fraction n / d (d > 0, n >= 0) in lowest terms.
Frac(n, d) == LET g == GCD(n, d) IN <<n \div g, d \div g>>

FracAdd(x, y) == Frac(x[1] * y[2] + y[1] * x[2], x[2] * y[2])
FracMul(x, y) == Frac(x[1] * y[1], x[2] * y[2])
FracDiv(x, y) == Frac(x[1] * y[2], x[2] * y[1])

RECURSIVE FracSum(_)
FracSum(xs) == IF xs = <<>> THEN <<0, 1>> ELSE FracAdd(Head(xs), FracSum(Tail(xs)))

\* The six domains of capability_tests, in order.
Domains ==
    <<"mathematics", "coding", "reasoning", "language", "creativity", "knowledge">>

\* The keys of an ordered dict, and the value at a key that is in it.
Keys(od) == [i \in 1..Len(od) |-> od[i][1]]
KeySet(od) == {od[i][1] : i \in 1..Len(od)}
Get(od, key) == CHOOSE i \in 1..Len(od) : od[i][1] = key
ValueAt(od, key) == od[Get(od, key)][2]

\* od[key] = value: a new key goes last, a known key keeps its place.
OrderedSet(od, key, value) ==
    IF key \in KeySet(od)
    THEN [i \in 1..Len(od) |-> IF od[i][1] = key THEN <<key, value>> ELSE od[i]]
    ELSE Append(od, <<key, value>>)

\* for signature in signatures: if signature:
\*     self.model_signatures[signature.model_name] = signature
\* (every ModelSignature is true; main hands over no None).
RECURSIVE Register(_, _)
Register(od, sigs) ==
    IF sigs = <<>> THEN od
    ELSE Register(OrderedSet(od, Head(sigs).model_name, Head(sigs)), Tail(sigs))

\* all_domains of build_capability_matrix.
AllDomains(sigs) ==
    UNION {{sigs[i][2].capabilities[j].domain :
                j \in 1..Len(sigs[i][2].capabilities)} : i \in 1..Len(sigs)}

\* The strengths of the capabilities of a signature in a domain.
DomainStrengths(sig, domain) ==
    LET domain_capabilities ==
            SelectSeq(sig.capabilities, LAMBDA cap : cap.domain = domain)
    IN  [j \in 1..Len(domain_capabilities) |-> domain_capabilities[j].strength]

\* A variant of MatrixRow with no entry for a model that has no capability in
\* the domain.
MatrixRowSparse(sigs, domain) ==
    LET having == SelectSeq(sigs, LAMBDA item : DomainStrengths(item[2], domain) # <<>>)
    IN  [i \in 1..Len(having) |->
            LET ds == DomainStrengths(having[i][2], domain)
            IN  <<having[i][1], SumSeq(ds) \div Len(ds)>>]

\* The row of a domain: for every registered model, the mean strength of its
\* capabilities in the domain, or 0.0 when it has none.  (A signature
\* extract_capabilities builds has at most one capability per domain, so the
\* mean is that capability's strength.)
MatrixRow(sigs, domain) ==
    [i \in 1..Len(sigs) |->
        LET ds == DomainStrengths(sigs[i][2], domain)
        IN  <<sigs[i][1], IF ds # <<>> THEN SumSeq(ds) \div Len(ds) ELSE 0>>]

\* build_capability_matrix: the rows of all_domains are built anew, the
\* other rows of self.capability_matrix stay.
build_capability_matrix(matrix, sigs) ==
    [d \in DOMAIN matrix \cup AllDomains(sigs) |->
        IF d \in AllDomains(sigs) THEN MatrixRow(sigs, d) ELSE matrix[d]]

\* A variant of MaxItem that returns the last item of the largest value.
RECURSIVE MaxItemLast(_, _)
MaxItemLast(best, rest) ==
    IF rest = <<>> THEN best
    ELSE MaxItemLast(IF Head(rest)[2] >= best[2] THEN Head(rest) ELSE best, Tail(rest))

\* max(models.items(), key=lambda x: x[1])[0]: the first item of the largest
\* value.
RECURSIVE MaxItem(_, _)
MaxItem(best, rest) ==
    IF rest = <<>> THEN best
    ELSE MaxItem(IF Head(rest)[2] > best[2] THEN Head(rest) ELSE best, Tail(rest))

\* A variant of get_best_model_for_domain whose default is the model
\* registered last.
get_best_model_for_domain_last(matrix, sigs, domain) ==
    IF domain \in DOMAIN matrix
    THEN MaxItem(Head(matrix[domain]), Tail(matrix[domain]))[1]
    ELSE Keys(sigs)[Len(sigs)]

get_best_model_for_domain(matrix, sigs, domain) ==
    IF domain \in DOMAIN matrix
    THEN MaxItem(Head(matrix[domain]), Tail(matrix[domain]))[1]
    ELSE Keys(sigs)[1]

\* overall_weight of calculate_fusion_weights for one signature.
overall_weight(sig) ==
    LET avg_strength ==
            IF sig.strengths # <<>>
            THEN Frac(SumSeq(sig.strengths), 20 * Len(sig.strengths))
            ELSE Frac(1, 2)
        diversity_score == Frac(Len(sig.capabilities), 10)
    IN  FracAdd(FracMul(avg_strength, Frac(7, 10)),
                FracMul(diversity_score, Frac(3, 10)))

\* A variant of calculate_fusion_weights that does not normalise.
calculate_fusion_weights_raw(sigs) ==
    [name \in KeySet(sigs) |-> overall_weight(sigs[Get(sigs, name)][2])]

\* calculate_fusion_weights: the weights are divided by their sum when the
\* sum is more than 0, and left as they are otherwise.
calculate_fusion_weights(sigs) ==
    LET weights == [i \in 1..Len(sigs) |-> overall_weight(sigs[i][2])]
        total_weight == FracSum(weights)
    IN  [name \in KeySet(sigs) |->
            IF total_weight[1] > 0
            THEN FracDiv(weights[Get(sigs, name)], total_weight)
            ELSE weights[Get(sigs, name)]]

NoBlueprint ==
    [component_models |-> 0, domains |-> {}, domain_experts |-> EmptyDict,
     weights |-> EmptyDict]

\* design_supermodel_architecture (and plan_integration_strategy, which adds
\* a constant plan to the blueprint).
design_supermodel_architecture(matrix, sigs) ==
    [component_models |-> Len(sigs),
     domains |-> DOMAIN matrix,
     domain_experts |->
        [d \in {Domains[i] : i \in 1..Len(Domains)} |->
            get_best_model_for_domain(matrix, sigs, d)],
     weights |-> calculate_fusion_weights(sigs)]

\* Whether design_supermodel_architecture raises: with no domain in the
\* matrix and no model registered, list(...)[0] is an IndexError.
DesignRaises(matrix, sigs) ==
    /\ sigs = <<>>
    /\ \E i \in 1..Len(Domains) : Domains[i] \notin DOMAIN matrix

\* analyze_dissection_results(sigs) of a new SuperModelArchitect, as main
\* makes it, when the design is built.
AnalyzeDesigns(sigs) ==
    LET registered == Register(model_signatures, sigs)
        matrix     == build_capability_matrix(capability_matrix, registered)
    IN  /\ ~DesignRaises(matrix, registered)
        /\ signatures' = sigs
        /\ model_signatures' = registered
        /\ capability_matrix' = matrix
        /\ architecture_blueprint' = design_supermodel_architecture(matrix, registered)
        /\ arch_status' = "designed"
        /\ UNCHANGED archFrame

\* analyze_dissection_results(sigs) when design_supermodel_architecture
\* raises: the blueprint is not assigned.
AnalyzeRaises(sigs) ==
    LET registered == Register(model_signatures, sigs)
        matrix     == build_capability_matrix(capability_matrix, registered)
    IN  /\ DesignRaises(matrix, registered)
        /\ signatures' = sigs
        /\ model_signatures' = registered
        /\ capability_matrix' = matrix
        /\ UNCHANGED architecture_blueprint
        /\ arch_status' = "raised"
        /\ UNCHANGED archFrame

\* The signatures handed to the architect: a capability in mathematics of
\* strength 0.1 or 0.9 or none, one in coding of 0.2 or 0.8 or none, and the
\* five strengths of identify_strengths all 0.0 or mixed.
ModelNames == {"A", "B", "C"}

CapabilityLists ==
    {(IF m = 0 THEN <<>> ELSE <<[domain |-> "mathematics", strength |-> m]>>)
     \o (IF c = 0 THEN <<>> ELSE <<[domain |-> "coding", strength |-> c]>>) :
        m \in {0, 1, 9}, c \in {0, 2, 8}}

StrengthLists == {<<0, 0, 0, 0, 0>>, <<14, 20, 5, 20, 11>>}

Signatures ==
    [model_name : ModelNames, capabilities : CapabilityLists, strengths : StrengthLists]

ArchInit ==
    /\ signatures = <<>>
    /\ arch_status = "fresh"
    /\ model_signatures = <<>>
    /\ capability_matrix = EmptyDict
    /\ architecture_blueprint = NoBlueprint

ArchIdle == ArchInit

\* The lists of signatures main may hand over.
SignatureLists == SeqsUpTo(Signatures, MaxSigs)

ArchNext ==
    \/ /\ arch_status = "fresh"
       /\ \E sigs \in SignatureLists : AnalyzeDesigns(sigs)
       /\ UNCHANGED runVars
    \/ /\ arch_status = "fresh"
       /\ \E sigs \in SignatureLists : AnalyzeRaises(sigs)
       /\ UNCHANGED runVars

\* A later call of analyze_dissection_results on the same architect: the
\* signatures are registered into the model_signatures the object holds, the
\* rows of all_domains are assigned in the capability_matrix it holds, and
\* the blueprint is assigned unless design_supermodel_architecture raises.
AnalyzeAgain(sigs) ==
    LET registered == Register(model_signatures, sigs)
        matrix     == build_capability_matrix(capability_matrix, registered)
    IN  /\ signatures' = sigs
        /\ model_signatures' = registered
        /\ capability_matrix' = matrix
        /\ architecture_blueprint' =
              IF DesignRaises(matrix, registered) THEN architecture_blueprint
              ELSE design_supermodel_architecture(matrix, registered)
        /\ arch_status' =
              IF DesignRaises(matrix, registered) THEN "raised again"
              ELSE "designed again"
        /\ UNCHANGED archFrame

\* The signatures of a later call: up to one signature, of a known or a new
\* name.
LaterSignatureLists == {<<>>} \cup {<<sig>> : sig \in Signatures}

ArchAgainNext ==
    \/ ArchNext
    \/ /\ arch_status \in {"designed", "raised"}
       /\ \E sigs \in LaterSignatureLists : AnalyzeAgain(sigs)
       /\ UNCHANGED runVars
       /\ UNCHANGED runVars

-----------------------------------------------------------------------------
(* main: the run over the discovered artifacts.  A discovered path is a     *)
(* GGUF file or a tar archive of GGUF files; whether the tar opens and      *)
(* whether _dissect_gguf_model raises on a file (Llama cannot load it, it   *)
(* cannot be read) are given with it.                                       *)

\* The signature _dissect_gguf_model builds for the file of a stem once the
\* model is loaded.
DissectedSignature(stem) ==
    [model_name |-> stem,
     capabilities |->
        IF stem = "A"
        THEN <<[domain |-> "mathematics", strength |-> 9]>>
        ELSE <<[domain |-> "mathematics", strength |-> 4],
               [domain |-> "coding", strength |-> 8]>>,
     strengths |-> <<14, 20, 5, 20, 11>>]

\* _dissect_gguf_model: it raises, or it caches and returns the signature.
dissect_gguf_model(file) ==
    IF file.loads
    THEN [raised |-> FALSE, signature |-> <<DissectedSignature(file.stem)>>,
          cached |-> <<DissectedSignature(file.stem)>>]
    ELSE [raised |-> TRUE, signature |-> <<>>, cached |-> <<>>]

\* The loop over the files extracted from a tar: the first signature that
\* is true is returned (every ModelSignature is), None when there is none;
\* an exception leaves the loop.
RECURSIVE dissect_extracted(_)
dissect_extracted(extracted_models) ==
    IF extracted_models = <<>>
    THEN [raised |-> FALSE, signature |-> <<>>, cached |-> <<>>]
    ELSE LET r == dissect_gguf_model(Head(extracted_models))
         IN  IF r.raised \/ r.signature # <<>> THEN r
             ELSE dissect_extracted(Tail(extracted_models))

\* A variant of dissect_model_structure that returns the signature of the
\* first file whether or not its dissection raised.
dissect_model_structure_partial(model_path) ==
    [signature |-> IF model_path.files = <<>> THEN <<>>
                   ELSE <<DissectedSignature(model_path.files[1].stem)>>,
     cached |-> <<>>,
     scratch |-> {}]

\* with tempfile.TemporaryDirectory() as tmpdir: the directories of the
\* block that are left once the block is left, by a return or an exception.
TemporaryDirectory_exit(tmpdirs) == {}

\* dissect_model_structure: the signature as a list of one, or none (None
\* returned) when there is no GGUF file in the tar or an exception was
\* caught; cached is what the call adds to dissection_cache.
dissect_model_structure(model_path) ==
    LET r == IF model_path.suffix = ".tar"
             THEN IF ~model_path.opens
                    THEN [raised |-> TRUE, signature |-> <<>>, cached |-> <<>>]
                    ELSE dissect_extracted(model_path.files)
             ELSE dissect_gguf_model(model_path.files[1])
        tmpdirs == IF model_path.suffix = ".tar" THEN {model_path} ELSE {}
    IN  IF r.raised
        THEN [signature |-> <<>>, cached |-> r.cached,
              scratch |-> TemporaryDirectory_exit(tmpdirs)]
        ELSE [signature |-> r.signature, cached |-> r.cached,
              scratch |-> TemporaryDirectory_exit(tmpdirs)]

\* The discovered paths: GGUF files of the stems A and B, and the tar
\* archive T with the files T1, T2, ... in it.
FileStems == {"A", "B"}

TarFileStems == <<"T1", "T2", "T3">>

GGUFPaths ==
    {[suffix |-> ".gguf", opens |-> TRUE, files |-> <<[stem |-> n, loads |-> b]>>] :
        n \in FileStems, b \in BOOLEAN}

TarPaths ==
    {[suffix |-> ".tar", opens |-> FALSE, files |-> <<>>]}
    \cup
    {[suffix |-> ".tar", opens |-> TRUE,
      files |-> [i \in 1..Len(l) |-> [stem |-> TarFileStems[i], loads |-> l[i]]]] :
        l \in SeqsUpTo(BOOLEAN, MaxMembers)}

\* The orders a set of n paths may be listed in.
Orders(n) == {f \in [1..n -> 1..n] : \A i, j \in 1..n : f[i] = f[j] => i = j}

\* discover_models(): the paths the walks found, each once, in the order
\* they were found in, and the list returned, list(set(model_paths)), in the
\* order of the set, which the hashes of the paths give.
discover_models ==
    UNION {{[walked |-> w, model_paths |-> [i \in 1..Len(w) |-> w[f[i]]]] :
               f \in Orders(Len(w))} :
           w \in SeqsUpTo(GGUFPaths \cup TarPaths, MaxPaths)}

\* model_paths = dissector.discover_models()
RunInit ==
    /\ \E d \in discover_models :
          walked = d.walked /\ model_paths = d.model_paths
    /\ scratch = {}
    /\ path_idx = 0
    /\ run_signatures = <<>>
    /\ dissection_cache = EmptyDict
    /\ run_status = "discovered"
    /\ blueprint_saved = FALSE
    /\ files = EmptyDict
    /\ emitted = <<>>

RunIdle ==
    /\ scratch = {}
    /\ walked = <<>>
    /\ model_paths = <<>>
    /\ path_idx = 0
    /\ run_signatures = <<>>
    /\ dissection_cache = EmptyDict
    /\ run_status = "idle"
    /\ blueprint_saved = FALSE
    /\ files = EmptyDict
    /\ emitted = <<>>

\* if not model_paths: logger.error(...); return
RunNoModels ==
    /\ run_status = "discovered"
    /\ model_paths = <<>>
    /\ run_status' = "returned_no_models"
    /\ UNCHANGED <<scratch, walked, model_paths, path_idx, run_signatures,
                   dissection_cache, blueprint_saved, files, emitted>>
    /\ UNCHANGED <<archVars, runFrame>>

\* One iteration of the loop of main:
\* signature = dissector.dissect_model_structure(model_path)
\* if signature: signatures.append(signature)
RunDissect ==
    /\ run_status \in {"discovered", "dissecting"}
    /\ path_idx < Len(model_paths)
    /\ LET r == dissect_model_structure(model_paths[path_idx + 1])
       IN  /\ run_signatures' = run_signatures \o r.signature
           /\ dissection_cache' =
                 IF r.cached = <<>> THEN dissection_cache
                 ELSE DictSet(dissection_cache, r.cached[1].model_name, r.cached[1])
    /\ path_idx' = path_idx + 1
    /\ run_status' = "dissecting"
    /\ scratch' = scratch \cup dissect_model_structure(model_paths[path_idx + 1]).scratch
    /\ UNCHANGED <<walked, model_paths, blueprint_saved, files, emitted>>
    /\ UNCHANGED <<archVars, runFrame>>

\* architect = SuperModelArchitect()
\* architect.analyze_dissection_results(signatures)
RunAnalyze ==
    /\ run_status = "dissecting"
    /\ path_idx = Len(model_paths)
    /\ AnalyzeDesigns(run_signatures)
    /\ run_status' = "analyzed"
    /\ UNCHANGED <<scratch, walked, model_paths, path_idx, run_signatures,
                   dissection_cache, blueprint_saved, files, emitted>>

\* The same when analyze_dissection_results raises: the IndexError leaves
\* main.
RunAnalyzeRaises ==
    /\ run_status = "dissecting"
    /\ path_idx = Len(model_paths)
    /\ AnalyzeRaises(run_signatures)
    /\ run_status' = "raised"
    /\ UNCHANGED <<scratch, walked, model_paths, path_idx, run_signatures,
                   dissection_cache, blueprint_saved, files, emitted>>

\* filepath: str = "supermodel_blueprint.json"
DefaultFilepath == "supermodel_blueprint.json"

\* blueprint_data of save_supermodel_blueprint
blueprint_data ==
    [model_signatures |-> model_signatures,
     capability_matrix |-> capability_matrix,
     architecture_blueprint |-> architecture_blueprint]

\* architect.save_supermodel_blueprint(), and main returns:
\* with open(filepath, 'w') as f: json.dump(blueprint_data, f, indent=2)
RunSave ==
    /\ run_status = "analyzed"
    /\ blueprint_saved' = TRUE
    /\ files' = DictSet(files, DefaultFilepath, blueprint_data)
    /\ emitted' = Append(emitted, [filepath |-> DefaultFilepath,
                                   data |-> blueprint_data])
    /\ run_status' = "returned"
    /\ UNCHANGED <<scratch, walked, model_paths, path_idx, run_signatures,
                   dissection_cache>>
    /\ UNCHANGED <<archVars, runFrame>>

\* main is run again, after a run that ended: a new dissector, the models
\* discovered anew, later a new architect; the files written stay.
RunAgain ==
    /\ run_status \in {"returned_no_models", "raised", "returned"}
    /\ Len(emitted) < MaxRuns
    /\ \E d \in discover_models :
          walked' = d.walked /\ model_paths' = d.model_paths
    /\ path_idx' = 0
    /\ run_signatures' = <<>>
    /\ dissection_cache' = EmptyDict
    /\ run_status' = "discovered"
    /\ blueprint_saved' = FALSE
    /\ signatures' = <<>>
    /\ arch_status' = "fresh"
    /\ model_signatures' = <<>>
    /\ capability_matrix' = EmptyDict
    /\ architecture_blueprint' = NoBlueprint
    /\ UNCHANGED <<scratch, files, emitted>>
    /\ UNCHANGED runFrame

RunNext ==
    \/ RunNoModels
    \/ RunDissect
    \/ RunAnalyze
    \/ RunAnalyzeRaises
    \/ RunSave

RunsNext ==
    \/ RunNoModels
    \/ RunDissect
    \/ RunAnalyze
    \/ RunAnalyzeRaises
    \/ RunSave
    \/ RunAgain

-----------------------------------------------------------------------------
(* ModelDissector.score_response.  A str is the sequence of its characters, *)
(* each a string of length one.  A score is an exact fraction               *)
(* <<numerator, denominator>> in lowest terms: the sums and quotients are   *)
(* those of the code, without the rounding of its floats.                   *)

\* The characters str.strip() removes.
Whitespace == {" ", "\t", "\n"}

RECURSIVE lstrip(_)
lstrip(str) ==
    IF str # <<>> /\ Head(str) \in Whitespace THEN lstrip(Tail(str)) ELSE str

RECURSIVE rstrip(_)
rstrip(str) ==
    IF str # <<>> /\ str[Len(str)] \in Whitespace
    THEN rstrip(SubSeq(str, 1, Len(str) - 1))
    ELSE str

\* str.strip()
strip(str) == rstrip(lstrip(str))

\* math_indicators
math_indicators ==
    <<<<"=">>,
      <<"+">>,
      <<"-">>,
      <<"*">>,
      <<"/">>,
      <<"x">>,
      <<"y">>,
      <<"0">>,
      <<"1">>,
      <<"2">>,
      <<"3">>,
      <<"4">>,
      <<"5">>,
      <<"6">>,
      <<"7">>,
      <<"8">>,
      <<"9">>>>

\* code_indicators
code_indicators ==
    <<<<"d", "e", "f">>,
      <<"f", "u", "n", "c", "t", "i", "o", "n">>,
      <<"p", "r", "i", "n", "t">>,
      <<"r", "e", "t", "u", "r", "n">>,
      <<"(", ")">>,
      <<"{", "}">>,
      <<"[", "]">>,
      <<"i", "m", "p", "o", "r", "t">>,
      <<"f", "o", "r">>,
      <<"i", "f">>>>

\* logic_indicators
logic_indicators ==
    <<<<"b", "e", "c", "a", "u", "s", "e">>,
      <<"t", "h", "e", "r", "e", "f", "o", "r", "e">>,
      <<"i", "f">>,
      <<"t", "h", "e", "n">>,
      <<"s", "i", "n", "c", "e">>,
      <<"h", "o", "w", "e", "v", "e", "r">>,
      <<"t", "h", "u", "s">>,
      <<"c", "o", "n", "c", "l", "u", "s", "i", "o", "n">>>>

\* lang_indicators
lang_indicators ==
    <<<<"i", "s">>,
      <<"a", "r", "e">>,
      <<"t", "h", "e">>,
      <<"a">>,
      <<"a", "n">>,
      <<"o", "f">>,
      <<"t", "o">>,
      <<"i", "n">>,
      <<"f", "o", "r">>,
      <<"w", "i", "t", "h">>>>

\* creative_indicators
creative_indicators ==
    <<<<"i", "m", "a", "g", "i", "n", "e">>,
      <<"c", "r", "e", "a", "t", "e">>,
      <<"n", "e", "w">>,
      <<"u", "n", "i", "q", "u", "e">>,
      <<"s", "t", "o", "r", "y">>,
      <<"p", "o", "e", "m">>,
      <<"b", "e", "a", "u", "t", "i", "f", "u", "l">>,
      <<"w", "o", "n", "d", "e", "r", "f", "u", "l">>>>

\* fact_indicators
fact_indicators ==
    <<<<"i", "s">>,
      <<"w", "a", "s">>,
      <<"w", "e", "r", "e">>,
      <<"a", "r", "e">>,
      <<"t", "h", "e">>,
      <<"f", "i", "r", "s", "t">>,
      <<"p", "r", "o", "c", "e", "s", "s">>,
      <<"c", "a", "p", "i", "t", "a", "l">>,
      <<"l", "o", "c", "a", "t", "e", "d">>>>

FracLess(x, y) == x[1] * y[2] < y[1] * x[2]

\* min(x, y) on fractions
FracMin(x, y) == IF FracLess(y, x) THEN y ELSE x

\* sum(1 for indicator in indicators if indicator in text)
CountIn(indicators, text) ==
    Len(SelectSeq(indicators, LAMBDA indicator : Contains(text, indicator)))

\* sum(1 for indicator in indicators if indicator.lower() in text.lower())
CountInLower(indicators, text) ==
    Len(SelectSeq(indicators,
                  LAMBDA indicator : Contains(lower(text), lower(indicator))))

\* length_bonus = min(0.3, len(response) / 100)
length_bonus(text) == FracMin(<<3, 10>>, Frac(Len(text), 100))

\* The score of the if/elif chain, before the bonus.
domain_score(text, d) ==
    CASE d = "mathematics" ->
            Frac(CountIn(math_indicators, text), Len(math_indicators))
      [] d = "coding" ->
            Frac(CountInLower(code_indicators, text), Len(code_indicators))
      [] d = "reasoning" ->
            Frac(CountInLower(logic_indicators, text), Len(logic_indicators))
      [] d = "language" ->
            Frac(CountInLower(lang_indicators, text), Len(lang_indicators))
      [] d = "creativity" ->
            Frac(CountInLower(creative_indicators, text), Len(creative_indicators))
      [] d = "knowledge" ->
            Frac(CountInLower(fact_indicators, text), Len(fact_indicators))
      [] OTHER -> <<1, 2>>

\* A variant of score_response without the min(1.0, ...) of its return.
score_response_unclamped(p, text, d) ==
    IF strip(text) = <<>>
    THEN <<0, 1>>
    ELSE FracAdd(domain_score(text, d), length_bonus(text))

\* score_response(prompt, response, domain)
score_response(p, text, d) ==
    IF strip(text) = <<>>
    THEN <<0, 1>>
    ELSE FracMin(<<1, 1>>, FracAdd(domain_score(text, d), length_bonus(text)))

\* The responses score_response is called with: every str of up to
\* MaxResponse of these characters, and some of thirty characters and more.
ResponseChars == {"x", "X", "=", " ", "i", "f", "F", "\n"}

\* Characters that are in no indicator.
Filler(n) == [i \in 1..n |-> "~"]

\* "1+1=2" and characters that are in no indicator, thirty in all.
MathFiller == <<"1", "+", "1", "=", "2">> \o Filler(25)

\* "if x = 1 then the story is first"
RichResponse ==
    <<"i", "f", " ", "x", " ", "=", " ", "1", " ", "t", "h", "e", "n",
      " ", "t", "h", "e", " ", "s", "t", "o", "r", "y", " ", "i", "s",
      " ", "f", "i", "r", "s", "t">>

\* "y=2*x+1-3/4 567890 is the answer"
RichMathResponse ==
    <<"y", "=", "2", "*", "x", "+", "1", "-", "3", "/", "4", " ", "5",
      "6", "7", "8", "9", "0", " ", "i", "s", " ", "t", "h", "e", " ",
      "a", "n", "s", "w", "e", "r">>

LongResponses ==
    {Filler(30), Filler(40), MathFiller, RichResponse, RichMathResponse,
     [i \in 1..Len(RichMathResponse) |->
         IF RichMathResponse[i] = "x" THEN "X" ELSE RichMathResponse[i]]}

Responses == SeqsUpTo(ResponseChars, MaxResponse) \cup LongResponses

DomainSet == {Domains[i] : i \in DOMAIN Domains}

\* score_response is about to be called on a response of a domain.
ScoreInit ==
    /\ scored_domain \in DomainSet
    /\ scored_response \in Responses
    /\ returned = <<>>

\* score_response has returned the score of the empty response.
ScoreIdle ==
    /\ scored_domain = Domains[1]
    /\ scored_response = <<>>
    /\ returned = <<0, 1>>

\* score = self.score_response(prompt, response, domain)
ScoreResponse ==
    /\ returned = <<>>
    /\ returned' = score_response(<<>>, scored_response, scored_domain)
    /\ UNCHANGED <<scored_domain, scored_response>>
    /\ UNCHANGED scoreFrame

ScoreNext == ScoreResponse

-----------------------------------------------------------------------------
(* ModelDissector.extract_capabilities.  Prompt k of the d-th domain of     *)
(* capability_tests is <<d, k>>.  The callable model is what it does when   *)
(* called: the prompts it raises on, the text it answers prompt k of a      *)
(* domain with, and the time a call takes; a time is a number of            *)
(* milliseconds.                                                            *)

\* len(prompts), for every domain of capability_tests
PromptsPerDomain == 3

\* activation_patterns.append(1.0)
NominalLatency == 1000

\* extract_specialized_tokens(domain)
extract_specialized_tokens(d) ==
    CASE d = "mathematics" ->
            <<"=", "+", "-", "*", "/", "^", "sqrt", "sin", "cos", "tan", "log">>
      [] d = "coding" ->
            <<"def", "class", "import", "return", "if", "else", "for", "while", "try", "except">>
      [] d = "reasoning" ->
            <<"therefore", "because", "since", "however", "moreover", "furthermore">>
      [] d = "language" ->
            <<"synonym", "antonym", "grammar", "syntax", "translate", "conjugate">>
      [] d = "creativity" ->
            <<"imagine", "create", "design", "innovative", "artistic", "original">>
      [] d = "knowledge" ->
            <<"fact", "history", "science", "geography", "biology", "physics">>
      [] OTHER -> <<>>

\* The except clause of the probe: what it makes of the two lists.
probe_except_silent(s, a) == [scores |-> s, activation_patterns |-> a]

probe_except(s, a) ==
    [scores |-> Append(s, <<0, 1>>),
     activation_patterns |-> Append(a, NominalLatency)]

\* avg_score = sum(scores) / len(scores) if scores else 0.0
avg_score(s) ==
    IF s = <<>> THEN <<0, 1>> ELSE FracDiv(FracSum(s), <<Len(s), 1>>)

\* if avg_score >= 0.3
meaningful_or_equal(avg) == ~FracLess(avg, <<3, 10>>)

\* if avg_score > 0.3
meaningful(avg) == FracLess(<<3, 10>>, avg)

\* ModelCapability(name=..., domain=..., strength=avg_score, ...)
ModelCapability(model_name, d, avg, patterns) ==
    [name |-> <<model_name, d>>,
     domain |-> d,
     strength |-> avg,
     layer_range |-> <<0, 20>>,
     parameter_count |-> (avg[1] * 1000000) \div avg[2],
     activation_patterns |-> patterns,
     specialized_tokens |-> extract_specialized_tokens(d)]

\* The prompts of capability_tests, in the order of the two loops.
Prompts ==
    [n \in 1..(Len(Domains) * PromptsPerDomain) |->
        <<((n - 1) \div PromptsPerDomain) + 1, ((n - 1) % PromptsPerDomain) + 1>>]

\* How many prompts of the current domain the inner loop has been through.
PromptsDone == Len(calls) - PromptsPerDomain * domains_done

\* The prompt the inner loop is at.
CurrentPrompt == <<domains_done + 1, PromptsDone + 1>>

\* output = model(prompt, ...) returns; the response is scored.
ProbeReturns ==
    /\ probe_status = "probing"
    /\ PromptsDone < PromptsPerDomain
    /\ CurrentPrompt \notin model.raises \cup model.hangs
    /\ calls' = Append(calls, CurrentPrompt)
    /\ scores' = Append(scores,
                        score_response(CurrentPrompt, model.text[PromptsDone + 1],
                                       Domains[domains_done + 1]))
    /\ activation_patterns' = Append(activation_patterns, model.elapsed)
    /\ UNCHANGED <<model, domains_done, capabilities, probe_status>>
    /\ UNCHANGED probeFrame

\* output = model(prompt, ...) raises; the except clause runs.
ProbeRaises ==
    /\ probe_status = "probing"
    /\ PromptsDone < PromptsPerDomain
    /\ CurrentPrompt \in model.raises \ model.hangs
    /\ calls' = Append(calls, CurrentPrompt)
    /\ scores' = probe_except(scores, activation_patterns).scores
    /\ activation_patterns' =
          probe_except(scores, activation_patterns).activation_patterns
    /\ UNCHANGED <<model, domains_done, capabilities, probe_status>>
    /\ UNCHANGED probeFrame

\* The end of an iteration of the loop over capability_tests: the average,
\* the capability if it is meaningful, and the two lists of the next domain
\* or, after the last domain, return capabilities.
EndDomain ==
    /\ probe_status = "probing"
    /\ PromptsDone = PromptsPerDomain
    /\ capabilities' =
          IF meaningful(avg_score(scores))
          THEN Append(capabilities,
                      ModelCapability(model.name, Domains[domains_done + 1],
                                      avg_score(scores), activation_patterns))
          ELSE capabilities
    /\ domains_done' = domains_done + 1
    /\ IF domains_done + 1 < Len(Domains)
       THEN /\ scores' = <<>>
            /\ activation_patterns' = <<>>
            /\ probe_status' = "probing"
       ELSE /\ UNCHANGED <<scores, activation_patterns>>
            /\ probe_status' = "returned"
    /\ UNCHANGED <<model, calls>>
    /\ UNCHANGED probeFrame

\* output = model(prompt, ...) does not return: the call has no timeout,
\* and extract_capabilities stays in it.
ProbeBlocks ==
    /\ probe_status = "probing"
    /\ PromptsDone < PromptsPerDomain
    /\ CurrentPrompt \in model.hangs
    /\ calls' = Append(calls, CurrentPrompt)
    /\ probe_status' = "blocked"
    /\ UNCHANGED <<model, domains_done, scores, activation_patterns, capabilities>>
    /\ UNCHANGED probeFrame

ProbeNext ==
    \/ ProbeReturns
    \/ ProbeRaises
    \/ EndDomain

ProbeHangNext ==
    \/ ProbeReturns
    \/ ProbeRaises
    \/ ProbeBlocks
    \/ EndDomain

\* The prompts a model raises on: some prompts of some domains.
FailurePatterns ==
    {{<<d, k>> : d \in ds, k \in ks} :
        ds \in SUBSET (1..Len(Domains)), ks \in SUBSET (1..PromptsPerDomain)}

\* What a model answers the three prompts of a domain with: one of two
\* responses to each, or the response of every mathematics indicator to all.
ProbeTexts == {MathFiller, RichResponse}

ProbeAnswers ==
    [1..PromptsPerDomain -> ProbeTexts]
        \cup {[k \in 1..PromptsPerDomain |-> RichMathResponse]}

\* The time a call of the model takes.
ElapsedTimes == {250}

\* The models every call of which returns or raises.
Models ==
    [name : {"A"},
     raises : FailurePatterns,
     hangs : {{}},
     text : ProbeAnswers,
     elapsed : ElapsedTimes]

\* The models one call of which does not return.
HangingModels ==
    [name : {"A"},
     raises : {{}, {<<d, 1>> : d \in 1..Len(Domains)}},
     hangs : {{<<d, k>>} : d \in 1..Len(Domains), k \in 1..PromptsPerDomain},
     text : [1..PromptsPerDomain -> ProbeTexts],
     elapsed : ElapsedTimes]

\* extract_capabilities(model, model_name) is called.
ProbeInit ==
    /\ model \in Models
    /\ calls = <<>>
    /\ domains_done = 0
    /\ scores = <<>>
    /\ activation_patterns = <<>>
    /\ capabilities = <<>>
    /\ probe_status = "probing"

\* extract_capabilities is called on a model one call of which does not
\* return.
ProbeHangInit ==
    /\ model \in HangingModels
    /\ calls = <<>>
    /\ domains_done = 0
    /\ scores = <<>>
    /\ activation_patterns = <<>>
    /\ capabilities = <<>>
    /\ probe_status = "probing"

ProbeIdle ==
    /\ model = [name |-> "A", raises |-> {}, hangs |-> {}, text |-> <<>>,
                elapsed |-> 0]
    /\ calls = <<>>
    /\ domains_done = 0
    /\ scores = <<>>
    /\ activation_patterns = <<>>
    /\ capabilities = <<>>
    /\ probe_status = "idle"

-----------------------------------------------------------------------------
(* The specifications.                                                      *)

\* The decoder before a file is opened.
DecodeIdle ==
    /\ container = [kvs |-> <<>>, tensors |-> <<>>]
    /\ stream = <<>>
    /\ missing = 0
    /\ pos = 0
    /\ pc = "idle"
    /\ status = "running"
    /\ header = NoHeader
    /\ metadata = EmptyDict
    /\ kv_done = 0
    /\ tensor_info = <<>>
    /\ td_done = 0
    /\ layers = EmptyDict
    /\ weights_data = EmptyWeights
    /\ closed = TRUE

DecodeNext ==
    \/ ReadMagic
    \/ ReadHeader
    \/ ExtractMetadataEntry
    \/ ExtractMetadataDone
    \/ ExtractTensorInfoEntry
    \/ ExtractTensorInfoDone
    \/ ExtractTensorDataEntry
    \/ ExtractTensorDataDone

\* Four bytes that are not the signature.
BadMagics == {<<71, 71, 77, 76>>, <<103, 103, 117, 102>>}

\* Spec: extract_gguf_weights on whole files, well-formed but for the magic.
Init ==
    /\ \E c \in Containers(KnownValues), m \in {GGUF} \cup BadMagics :
          Opened(c, EncodeContainer(m, c), Len(EncodeContainer(m, c)))
    /\ MergeIdle
    /\ ArchIdle
    /\ RunIdle
    /\ ScoreIdle
    /\ ProbeIdle

Next == DecodeNext

Spec == Init /\ [][Next]_vars

\* SpecMerge: merge_extracted_weights on the weights of up to MaxModels
\* models.
InitMerge ==
    DecodeIdle /\ MergeInit /\ ArchIdle /\ RunIdle /\ ScoreIdle /\ ProbeIdle

SpecMerge == InitMerge /\ [][MergeNext]_vars

\* SpecArch: analyze_dissection_results on up to MaxSigs signatures.
InitArch ==
    DecodeIdle /\ MergeIdle /\ ArchInit /\ RunIdle /\ ScoreIdle /\ ProbeIdle

SpecArch == InitArch /\ [][ArchNext]_vars

\* SpecArchAgain: two calls of analyze_dissection_results on one
\* SuperModelArchitect.
SpecArchAgain == InitArch /\ [][ArchAgainNext]_vars

\* SpecTensor: extract_gguf_weights on whole files whose tensor tables hold
\* descriptors of every type, with and without a dimension of 0.
InitTensor ==
    /\ \E c \in TensorContainers :
          Opened(c, EncodeTensorFile(c), Len(EncodeTensorFile(c)))
    /\ MergeIdle
    /\ ArchIdle
    /\ RunIdle
    /\ ScoreIdle
    /\ ProbeIdle

SpecTensor == InitTensor /\ [][Next]_vars

\* SpecRun: main on up to MaxPaths discovered paths.
InitRun ==
    DecodeIdle /\ MergeIdle /\ ArchInit /\ RunInit /\ ScoreIdle /\ ProbeIdle

SpecRun == InitRun /\ [][RunNext]_vars

\* SpecRuns: main run again and again, up to MaxRuns blueprints saved.
SpecRuns == InitRun /\ [][RunsNext]_vars

\* SpecScore: score_response on a response of one of the six domains.
InitScore ==
    DecodeIdle /\ MergeIdle /\ ArchIdle /\ RunIdle /\ ScoreInit /\ ProbeIdle

SpecScore == InitScore /\ [][ScoreNext]_vars

\* SpecProbe: extract_capabilities on a model that raises on some prompts.
InitProbe ==
    DecodeIdle /\ MergeIdle /\ ArchIdle /\ RunIdle /\ ScoreIdle /\ ProbeInit

SpecProbe == InitProbe /\ [][ProbeNext]_vars

\* SpecProbeHang: extract_capabilities on a model one call of which does
\* not return.
InitProbeHang ==
    DecodeIdle /\ MergeIdle /\ ArchIdle /\ RunIdle /\ ScoreIdle /\ ProbeHangInit

SpecProbeHang == InitProbeHang /\ [][ProbeHangNext]_vars

\* SpecCorrupt: extract_gguf_weights on files that hold a value of a type it
\* does not know, and on files cut short inside the header, the metadata or
\* the tensor table.
InitCorrupt ==
    \/ \E c \in Containers(KnownValues \cup UnknownValues) :
          Opened(c, EncodeContainer(GGUF, c), Len(EncodeContainer(GGUF, c)))
    \/ \E c \in SmallContainers(KnownValues) :
          \E cut \in 0..(TableEnd(c) - 1) :
              Opened(c, EncodeContainer(GGUF, c), cut)

\* SpecRelease: extract_gguf_weights on a small file, whole, of a wrong
\* magic or cut short, beside a run of main over at most one tar archive.
ReleaseContainers ==
    {c \in SmallContainers(KnownValues \cup UnknownValues) :
        \A i \in 1..Len(c.kvs) : c.kvs[i].key = <<97>>}

InitRelease ==
    /\ \/ \E c \in ReleaseContainers, m \in {GGUF} \cup BadMagics :
             Opened(c, EncodeContainer(m, c), Len(EncodeContainer(m, c)))
       \/ \E c \in ReleaseContainers :
             \E cut \in {HeaderEnd - 1, MetadataEnd(c) - 1, TableEnd(c) - 1} :
                 Opened(c, EncodeContainer(GGUF, c), cut)
    /\ MergeIdle
    /\ ArchInit
    /\ walked \in SeqsUpTo(TarPaths, 1)
    /\ model_paths = walked
    /\ scratch = {}
    /\ path_idx = 0
    /\ run_signatures = <<>>
    /\ dissection_cache = EmptyDict
    /\ run_status = "discovered"
    /\ blueprint_saved = FALSE
    /\ files = EmptyDict
    /\ emitted = <<>>
    /\ ScoreIdle
    /\ ProbeIdle

ReleaseNext ==
    \/ ReadMagic
    \/ ReadHeader
    \/ ExtractMetadataEntry
    \/ ExtractMetadataDone
    \/ ExtractTensorInfoEntry
    \/ ExtractTensorInfoDone
    \/ ExtractTensorDataEntry
    \/ ExtractTensorDataDone
    \/ RunNoModels
    \/ RunDissect
    \/ RunAnalyze
    \/ RunAnalyzeRaises
    \/ RunSave

SpecRelease == InitRelease /\ [][ReleaseNext]_vars

InitCorruptAll ==
    InitCorrupt /\ MergeIdle /\ ArchIdle /\ RunIdle /\ ScoreIdle /\ ProbeIdle

SpecCorrupt == InitCorruptAll /\ [][Next]_vars

-----------------------------------------------------------------------------
(* The claims about extract_gguf_weights.                                   *)

GoodMagic == read(stream, 0, 4) = GGUF

\* The file is the whole file written from container.
WholeFile == GoodMagic /\ missing = 0

\* The file is a file written from container, cut short before its payload.
CutFile == missing > Len(Payload)

\* The metadata of container as a dict.
OriginalMap(c) ==
    [k \in {c.kvs[i].key : i \in 1..Len(c.kvs)} |->
        (CHOOSE e \in {c.kvs[i] : i \in 1..Len(c.kvs)} : e.key = k).val]

UnknownAt(c) == {i \in 1..Len(c.kvs) : c.kvs[i].tag \notin 0..8}

FirstUnknown(c) == CHOOSE i \in UnknownAt(c) : \A j \in UnknownAt(c) : i <= j

\* C2: decoding a metadata entry whose type tag is not one of 0..8 fails at
\* that entry: no None is stored for it, the loop does not go on to the next
\* entry, and the tensor table is never read.
C2_UnknownTagFails ==
    (WholeFile /\ UnknownAt(container) # {}) =>
        /\ kv_done < FirstUnknown(container)
        /\ \A k \in DOMAIN metadata : metadata[k][1] # "none"
        /\ pc \in {"magic", "header", "metadata", "done"}
        /\ pc = "done" => status = "failed"

\* C3: on a well-formed container the header, the metadata block and the
\* tensor table are decoded without a failed read, and the cursor stands at
\* the end of each region when its decoding ends: at the start of the payload
\* region after the last table entry.
C3_CursorAtPayload ==
    (WholeFile /\ UnknownAt(container) = {}) =>
        /\ status # "failed"
        /\ pc = "metadata" /\ kv_done = 0 => pos = HeaderEnd
        /\ pc = "tensor_info" /\ tensor_info = <<>> => pos = MetadataEnd(container)
        /\ pc = "tensor_data" /\ td_done = 0 =>
              /\ pos = TableEnd(container)
              /\ pos = Len(stream) - Len(Payload)
              /\ tensor_info = container.tensors

C3_Witness ==
    /\ WholeFile
    /\ pc = "tensor_data" /\ td_done = 0
    /\ Len(container.kvs) = 1 /\ container.kvs[1].tag = 8
    /\ Len(container.tensors) = MaxTensors
    /\ \E i \in 1..Len(container.tensors) : Len(container.tensors[i].dims) = MaxDims
    /\ pos = TableEnd(container)

\* C4: on a file cut short inside the header, the metadata or the tensor
\* table, the read that comes up short fails: decoding never ends normally,
\* and nothing shortened is kept (every decoded metadata entry and every
\* decoded descriptor is one of the container's, whole).
C4_TruncatedReadFails ==
    CutFile =>
        /\ status # "ok"
        /\ pc \notin {"tensor_data"}
        /\ \A k \in DOMAIN metadata :
              /\ k \in DOMAIN OriginalMap(container)
              /\ metadata[k] = OriginalMap(container)[k]
        /\ \A i \in 1..Len(tensor_info) :
              i <= Len(container.tensors) /\ tensor_info[i] = container.tensors[i]

\* C5: when the first four bytes are not b'GGUF', extract_gguf_weights
\* stops after reading them: no version, count, metadata entry or descriptor
\* is read and the weights_data it returns is the empty one.
C5_BadMagicReadsNothing ==
    (~GoodMagic /\ pc # "magic") =>
        /\ status = "invalid"
        /\ pc = "done"
        /\ pos = 4
        /\ header = NoHeader
        /\ metadata = EmptyDict
        /\ tensor_info = <<>>
        /\ weights_data = EmptyWeights

C5_Witness ==
    /\ ~GoodMagic
    /\ status = "invalid"
    /\ Len(container.kvs) > 0 /\ Len(container.tensors) > 0
    /\ weights_data = EmptyWeights

\* C6: the metadata of a container with distinct keys and values of the nine
\* supported types, encoded in any order of its entries, decodes to the same
\* map.
C6_MetadataRoundTrip ==
    (WholeFile /\ UnknownAt(container) = {} /\ DistinctKeys(container.kvs)) =>
        /\ pc \in {"tensor_info", "tensor_data"} \/ (pc = "done" /\ status = "ok") =>
              weights_data.architecture_metadata = OriginalMap(container)
        /\ pc = "metadata" =>
              \A k \in DOMAIN metadata : metadata[k] = OriginalMap(container)[k]
        /\ status # "failed"

C6_Witness ==
    /\ WholeFile
    /\ pc = "done" /\ status = "ok"
    /\ Len(container.kvs) = MaxKV
    /\ container.kvs[1].key = <<233>> /\ container.kvs[1].tag = 8
    /\ container.kvs[2].key = <<97>> /\ container.kvs[2].tag = 5
    /\ weights_data.architecture_metadata =
          (<<233>> :> <<"str", <<104, 233>>>>) @@ (<<97>> :> <<"int", -70000>>)

-----------------------------------------------------------------------------
(* The claims about merge_extracted_weights.                                *)

\* The entries of a bucket of unified_model.
BucketEntries(bucket) == {<<k, bucket[k]>> : k \in DOMAIN bucket}

\* The entries of all the buckets the merger writes.
Merged ==
    Cardinality(BucketEntries(unified_model.embedding_layers))
    + Cardinality(BucketEntries(unified_model.attention_layers))
    + Cardinality(BucketEntries(unified_model.feed_forward_layers))
    + Cardinality(BucketEntries(unified_model.transformer_blocks))
    + Cardinality(BucketEntries(unified_model.output_layers))

\* The buckets that hold the tensor t.
BucketsOf(t) ==
    {b \in {"embedding_layers", "attention_layers", "feed_forward_layers",
            "transformer_blocks", "output_layers"} :
        \E k \in DOMAIN unified_model[b] : unified_model[b][k] = t}

\* C1: every tensor the merger has taken is in the unified model once, in
\* one bucket: unified_model has as many entries as tensors were merged, and
\* each merged tensor is the value of an entry of exactly one bucket.
C1_EveryTensorOnce ==
    /\ Merged = merged
    /\ \A i \in 1..merged :
          Cardinality(BucketsOf(Items(all_weights)[i])) = 1

-----------------------------------------------------------------------------
(* The claims about SuperModelArchitect.                                    *)

\* The artifacts analyze_dissection_results was given, by name, and the
\* places of a name in the sequence it was given.
Artifacts == {signatures[k].model_name : k \in 1..Len(signatures)}

Places(name) == {k \in 1..Len(signatures) : signatures[k].model_name = name}

FirstSeen(name) == CHOOSE k \in Places(name) : \A j \in Places(name) : k <= j

\* The signature of an artifact: the one given under its name (the last one,
\* should a name be given twice).
SignatureOf(name) ==
    signatures[CHOOSE k \in Places(name) : \A j \in Places(name) : k >= j]

DistinctNames == \A name \in Artifacts : Cardinality(Places(name)) = 1

\* The domains of the capabilities of a signature, and its strength in one.
DomainsOf(sig) == {sig.capabilities[j].domain : j \in 1..Len(sig.capabilities)}

StrengthIn(sig, domain) ==
    IF domain \in DomainsOf(sig)
    THEN sig.capabilities[CHOOSE j \in 1..Len(sig.capabilities) :
                              sig.capabilities[j].domain = domain].strength
    ELSE 0

\* C7: the capability matrix is dense: for every domain of a capability of
\* any signature, the row of the domain has one entry for each of the N
\* artifacts, the artifact's strength in the domain when it has the
\* capability and 0.0 otherwise.
C7_DenseMatrix ==
    arch_status = "designed" =>
        /\ \A name \in Artifacts : DomainsOf(SignatureOf(name)) \subseteq DOMAIN capability_matrix
        /\ \A d \in DOMAIN capability_matrix :
              /\ Len(capability_matrix[d]) = Cardinality(Artifacts)
              /\ KeySet(capability_matrix[d]) = Artifacts
              /\ \A name \in Artifacts :
                    ValueAt(capability_matrix[d], name) = StrengthIn(SignatureOf(name), d)

C7_Witness ==
    /\ arch_status = "designed"
    /\ Len(signatures) = 2 /\ DistinctNames
    /\ "coding" \in DomainsOf(signatures[1]) /\ "coding" \notin DomainsOf(signatures[2])
    /\ "coding" \in DOMAIN capability_matrix
    /\ ValueAt(capability_matrix["coding"], signatures[2].model_name) = 0
    /\ ValueAt(capability_matrix["coding"], signatures[1].model_name) > 0

ExampleA ==
    [model_name |-> "A", strengths |-> <<14, 20, 5, 20, 11>>,
     capabilities |-> <<[domain |-> "mathematics", strength |-> 9],
                        [domain |-> "coding", strength |-> 2]>>]

ExampleB ==
    [model_name |-> "B", strengths |-> <<14, 20, 5, 20, 11>>,
     capabilities |-> <<[domain |-> "mathematics", strength |-> 1],
                        [domain |-> "coding", strength |-> 8]>>]

\* C8: for every domain of the capability matrix, domain_experts names an
\* artifact of the largest strength in the domain, and of those of the
\* largest strength the one that comes first in the signatures given; A of
\* mathematics 0.9 and coding 0.2 with B of mathematics 0.1 and coding 0.8
\* gives mathematics to A and coding to B.
C8_RoutingArgmaxFirst ==
    arch_status = "designed" =>
        /\ \A d \in DOMAIN capability_matrix :
              LET expert == architecture_blueprint.domain_experts[d]
              IN  /\ expert \in Artifacts
                  /\ \A name \in Artifacts :
                        /\ StrengthIn(SignatureOf(name), d)
                               <= StrengthIn(SignatureOf(expert), d)
                        /\ StrengthIn(SignatureOf(name), d)
                               = StrengthIn(SignatureOf(expert), d)
                           => FirstSeen(expert) <= FirstSeen(name)
        /\ signatures = <<ExampleA, ExampleB>> =>
              /\ architecture_blueprint.domain_experts["mathematics"] = "A"
              /\ architecture_blueprint.domain_experts["coding"] = "B"

C8_Witness ==
    /\ arch_status = "designed"
    /\ Len(signatures) = 2 /\ DistinctNames
    /\ StrengthIn(signatures[1], "mathematics") = 9
    /\ StrengthIn(signatures[2], "mathematics") = 9
    /\ StrengthIn(signatures[1], "coding") < StrengthIn(signatures[2], "coding")
    /\ architecture_blueprint.domain_experts["mathematics"] = signatures[1].model_name
    /\ architecture_blueprint.domain_experts["coding"] = signatures[2].model_name

\* The raw weight of a signature of five strengths, in thousandths:
\* 0.7 * (sum / 5) + 0.3 * (count / 10), with the strengths in twentieths.
RawWeight(sig) == 7 * SumSeq(sig.strengths) + 30 * Len(sig.capabilities)

TotalRawWeight ==
    SumSeq([i \in 1..Len(model_signatures) |->
               RawWeight(SignatureOf(model_signatures[i][1]))])

\* The sum of the fusion weights, as a fraction.
WeightSum ==
    FracSum([i \in 1..Len(model_signatures) |->
                architecture_blueprint.weights[model_signatures[i][1]]])

\* C9: when the signatures are not none and an artifact has a raw weight that
\* is not 0, the fusion weights have one entry for each artifact and no
\* other, each the artifact's raw weight divided by the sum of the raw
\* weights, and their sum is within 1e-6 of 1.0.
C9_FusionWeightsNormalised ==
    (arch_status = "designed" /\ signatures # <<>> /\ TotalRawWeight > 0) =>
        /\ DOMAIN architecture_blueprint.weights = Artifacts
        /\ Len(model_signatures) = Cardinality(Artifacts)
        /\ \A name \in Artifacts :
              LET w == architecture_blueprint.weights[name]
              IN  w[1] * TotalRawWeight = RawWeight(SignatureOf(name)) * w[2]
        /\ LET diff == Max(WeightSum[1], WeightSum[2]) - Min(WeightSum[1], WeightSum[2])
           IN  diff = 0 \/ diff <= WeightSum[2] \div 1000000

C9_Witness ==
    /\ arch_status = "designed"
    /\ Len(signatures) = 2 /\ DistinctNames
    /\ RawWeight(signatures[1]) > 0
    /\ RawWeight(signatures[2]) > RawWeight(signatures[1])
    /\ architecture_blueprint.weights[signatures[1].model_name][1] > 0
    /\ architecture_blueprint.weights[signatures[1].model_name]
          # architecture_blueprint.weights[signatures[2].model_name]
    /\ WeightSum = <<1, 1>>

\* C10: when the raw weight of every one of the N artifacts is 0, every
\* fusion weight is 1/N.
C10_UniformFallback ==
    (arch_status = "designed" /\ signatures # <<>> /\ TotalRawWeight = 0) =>
        \A name \in Artifacts :
            architecture_blueprint.weights[name] = <<1, Cardinality(Artifacts)>>

-----------------------------------------------------------------------------
(* The claims about main.                                                   *)

\* The dissection of a discovered path fails: the file cannot be loaded, the
\* tar cannot be opened or holds no GGUF file, or the first file of the tar
\* cannot be loaded.
Fails(path) ==
    IF path.suffix = ".tar"
    THEN ~path.opens \/ path.files = <<>> \/ ~path.files[1].loads
    ELSE ~path.files[1].loads

\* The signatures of the paths among the first k whose dissection does not
\* fail, in their order.
SignaturesOfFirst(k) ==
    LET sound == SelectSeq(SubSeq(model_paths, 1, k), LAMBDA path : ~Fails(path))
    IN  [i \in 1..Len(sound) |-> DissectedSignature(sound[i].files[1].stem)]

RunEnded == run_status \in {"returned_no_models", "raised", "returned"}

C12_DegenerateRunFails ==
    /\ (RunEnded /\ run_signatures = <<>>) =>
          /\ run_status = "raised"
          /\ ~blueprint_saved
          /\ architecture_blueprint = NoBlueprint
    /\ blueprint_saved => run_signatures # <<>>

-----------------------------------------------------------------------------
(* The claims about _extract_tensor_data.                                   *)

\* The descriptors of a table whose type is F32 or F16.
Supported(table) == SelectSeq(table, LAMBDA tensor : tensor.type \in {0, 1})

\* The descriptors _extract_tensor_data has handled.
Handled == SubSeq(tensor_info, 1, td_done)

\* No descriptor before the i-th has its name: what layers holds under the
\* name after the i-th is handled is the buffer of the i-th.
FirstOfName(i) == \A j \in 1..(i - 1) : tensor_info[j].name # tensor_info[i].name

\* The product of the dimensions.
RECURSIVE Product(_)
Product(dims) == IF dims = <<>> THEN 1 ELSE Head(dims) * Product(Tail(dims))

\* The bytes of one value of a type.
BytesOf(type) == IF type = 0 THEN 4 ELSE 2

\* The n values of a type that stand in file s from byte p on.
ValuesAt(s, p, type, n) ==
    [i \in 1..n |->
        LET b == SubSeq(s, p + (i - 1) * BytesOf(type) + 1, p + i * BytesOf(type))
        IN  IF type = 0 THEN unpack_float(b) ELSE unpack_half(b)]

\* C13: a descriptor whose type is neither F32 nor F16 gives no buffer, and
\* the descriptors before and after it give the buffers they give with it
\* left out of the table: the loop goes on to the last descriptor.
C13_UnsupportedTypeSkipped ==
    pc \in {"tensor_data", "done"} /\ status \in {"running", "ok"} =>
        /\ layers = extract_tensor_data(stream, Supported(Handled), EmptyDict)
        /\ \A name \in DOMAIN layers : layers[name].type \in {0, 1}
        /\ \A i \in 1..td_done :
              tensor_info[i].type \notin {0, 1} =>
                  \A name \in DOMAIN layers :
                      layers[name].type # tensor_info[i].type
        /\ status = "ok" =>
              /\ td_done = Len(container.tensors)
              /\ weights_data.layers = layers

C13_Witness ==
    /\ pc = "done" /\ status = "ok"
    /\ Len(tensor_info) = MaxTensors
    /\ tensor_info[1].type = 2
    /\ tensor_info[2].type = 0 /\ tensor_info[2].dims = <<2, 3>>
    /\ tensor_info[1].name \notin DOMAIN weights_data.layers
    /\ tensor_info[2].name \in DOMAIN weights_data.layers
    /\ Len(weights_data.layers[tensor_info[2].name].data) = 6

\* C14: a tensor whose shape has a dimension of 0 gives no buffer: no
\* stored layer has a 0 in its shape, and none has no value.
C14_ZeroDimensionFails ==
    \A name \in DOMAIN layers :
        /\ \A i \in 1..Len(layers[name].shape) : layers[name].shape[i] # 0
        /\ layers[name].data # <<>>

\* C15: the buffer of a supported descriptor whose dimensions are all
\* positive holds as many values as the product of the dimensions, the
\* consecutive values of its type from the declared offset on.
C15_BufferHoldsProduct ==
    (td_done > 0 /\ pc \in {"tensor_data", "done"}) =>
        LET tensor == tensor_info[td_done]
        IN  (/\ tensor.type \in {0, 1}
             /\ \A i \in 1..Len(tensor.dims) : tensor.dims[i] > 0
             /\ FirstOfName(td_done)
             /\ tensor.name \in DOMAIN layers) =>
                /\ Len(layers[tensor.name].data) = Product(tensor.dims)
                /\ layers[tensor.name].data =
                      ValuesAt(stream, tensor.offset, tensor.type, Product(tensor.dims))

\* C16: the payload of a tensor is read at the start of the payload region
\* plus the declared offset: a supported tensor whose values lie in the
\* payload region at that place is stored with those values.
C16_OffsetFromPayloadBase ==
    (td_done > 0 /\ pc \in {"tensor_data", "done"}) =>
        LET tensor == tensor_info[td_done]
            base   == TableEnd(container)
            n      == Product(tensor.dims)
        IN  (/\ tensor.type \in {0, 1}
             /\ n > 0
             /\ FirstOfName(td_done)
             /\ tensor.offset + n * BytesOf(tensor.type) <= Len(TensorPayload)) =>
                /\ tensor.name \in DOMAIN layers
                /\ layers[tensor.name].data =
                      ValuesAt(stream, base + tensor.offset, tensor.type, n)

-----------------------------------------------------------------------------
(* The claims about score_response.                                         *)

\* The indicator vocabulary of a domain.
Vocabulary(d) ==
    CASE d = "mathematics" -> math_indicators
      [] d = "coding" -> code_indicators
      [] d = "reasoning" -> logic_indicators
      [] d = "language" -> lang_indicators
      [] d = "creativity" -> creative_indicators
      [] d = "knowledge" -> fact_indicators

\* How many indicators of a domain occur in a text, whatever the case of
\* the letters.
IndicatorsIn(d, text) ==
    Cardinality({i \in 1..Len(Vocabulary(d)) :
                    Contains(lower(text), lower(Vocabulary(d)[i]))})

\* min(1, indicators in the text / size of the vocabulary
\*        + min(0.3, length of the text / 100))
FormulaScore(d, text) ==
    FracMin(<<1, 1>>,
            FracAdd(Frac(IndicatorsIn(d, text), Len(Vocabulary(d))),
                    FracMin(<<3, 10>>, Frac(Len(text), 100))))

\* C17: for every domain and every response the score is
\* min(1, matches / vocabulary size + min(0.3, length / 100)), and it lies
\* between 0 and 1.
C17_ScoreIsFormula ==
    returned # <<>> =>
        /\ returned = FormulaScore(scored_domain, scored_response)
        /\ ~FracLess(returned, <<0, 1>>)
        /\ ~FracLess(<<1, 1>>, returned)

\* C18: two responses that differ in the case of their letters only have
\* the same score for the same domain, in every one of the six domains.
C18_CaseInsensitive ==
    returned # <<>> =>
        \A other \in Responses :
            lower(other) = lower(scored_response) =>
                score_response(<<>>, other, scored_domain) = returned

-----------------------------------------------------------------------------
(* The claims about extract_capabilities.                                   *)

\* The arithmetic mean of three scores.
Mean3(s) == FracDiv(FracAdd(FracAdd(s[1], s[2]), s[3]), <<3, 1>>)

\* x > 0.3
AboveThreshold(x) == 10 * x[1] > 3 * x[2]

\* C19: when a domain ends, its strength is the mean of its 3 probe scores;
\* the domain gets a capability, the last of the list, if and only if the
\* mean is above 0.3, a mean of 0.3 gets none, and the capability carries
\* the mean as its strength.  No other step touches the capabilities.
C19_StrengthIsMeanAboveThreshold ==
    [][IF domains_done' = domains_done + 1
       THEN /\ Len(scores) = 3
            /\ IF AboveThreshold(Mean3(scores))
               THEN /\ Len(capabilities') = Len(capabilities) + 1
                    /\ SubSeq(capabilities', 1, Len(capabilities)) = capabilities
                    /\ capabilities'[Len(capabilities')].domain =
                          Domains[domains_done + 1]
                    /\ capabilities'[Len(capabilities')].strength = Mean3(scores)
               ELSE capabilities' = capabilities
       ELSE capabilities' = capabilities]_vars

\* The run has returned; mathematics, one probe of which raised, has a
\* capability whose strength is above 0.3, and knowledge, the mean of whose
\* scores is 0.3, has none.
C19_Witness ==
    /\ probe_status = "returned"
    /\ Len(capabilities) = 1
    /\ capabilities[1].domain = "mathematics"
    /\ AboveThreshold(capabilities[1].strength)
    /\ NominalLatency \in {capabilities[1].activation_patterns[i] : i \in 1..3}
    /\ Len(scores) = 3
    /\ Mean3(scores) = <<3, 10>>

\* The domain the two lists are those of.
ListedDomain ==
    IF probe_status = "returned" THEN domains_done ELSE domains_done + 1

\* C20: whatever prompts raise, the probes are attempted once each in the
\* order of capability_tests, a probe that raises records the score 0.0 and
\* the latency 1.0, every probe attempted records one score and one
\* latency, so a domain ends with 3 of each, and the run goes on until the
\* 18 probes have been attempted.
C20_EveryProbeAttempted ==
    /\ Len(calls) <= Len(Prompts)
    /\ calls = SubSeq(Prompts, 1, Len(calls))
    /\ Len(activation_patterns) = Len(scores)
    /\ probe_status = "probing" =>
          /\ Len(scores) = PromptsDone
          /\ PromptsDone \in 0..PromptsPerDomain
          /\ domains_done < Len(Domains)
    /\ \A k \in 1..Len(scores) :
          <<ListedDomain, k>> \in model.raises =>
              /\ scores[k] = <<0, 1>>
              /\ activation_patterns[k] = NominalLatency
    /\ \A i \in 1..Len(capabilities) :
          Len(capabilities[i].activation_patterns) = PromptsPerDomain
    /\ probe_status = "returned" =>
          /\ calls = Prompts
          /\ Len(calls) = 18
          /\ Len(scores) = 3

\* The run has returned from a model that raises on the three prompts of
\* two domains and more: the 18 prompts were attempted, and the last domain
\* ended with three scores of 0.0 and three latencies of 1.0.
C20_Witness ==
    /\ probe_status = "returned"
    /\ Cardinality(model.raises) >= 6
    /\ Len(calls) = 18
    /\ scores = <<<<0, 1>>, <<0, 1>>, <<0, 1>>>>
    /\ activation_patterns = <<NominalLatency, NominalLatency, NominalLatency>>

\* C21: a probe whose call does not return is timed out: extract_capabilities
\* does not stay in the call, the probe is recorded with the score 0.0 and
\* the latency 1.0, and the probes after it are issued.
C21_ProbeTimeoutFires ==
    \A n \in 1..Len(calls) :
        calls[n] \in model.hangs =>
            /\ probe_status # "blocked"
            /\ calls[n][1] = ListedDomain =>
                  /\ scores[calls[n][2]] = <<0, 1>>
                  /\ activation_patterns[calls[n][2]] = NominalLatency

-----------------------------------------------------------------------------
(* The claims about the runs of main and what they write.                   *)

\* C22: a blueprint a run has written is not overwritten afterwards: the
\* runs that saved a blueprint wrote to paths that differ from run to run,
\* and the file of each still holds what that run wrote.
C22_BlueprintWrittenOnce ==
    /\ \A i \in 1..Len(emitted) :
          /\ emitted[i].filepath \in DOMAIN files
          /\ files[emitted[i].filepath] = emitted[i].data
    /\ \A i, j \in 1..Len(emitted) :
          i # j => emitted[i].filepath # emitted[j].filepath

\* The signatures of the paths found whose dissection does not fail, in the
\* order the paths were found in.
SignaturesInDiscoveryOrder ==
    LET sound == SelectSeq(walked, LAMBDA path : ~Fails(path))
    IN  [i \in 1..Len(sound) |-> DissectedSignature(sound[i].files[1].stem)]

\* C23: the signatures handed to the architect are those of the artifacts
\* dissected, in the order the artifacts were discovered in, and so are,
\* when no two have the same name, the signatures of the blueprint.
C23_DiscoveryOrder ==
    run_status \in {"analyzed", "raised", "returned"} =>
        /\ signatures = SignaturesInDiscoveryOrder
        /\ (\A i, j \in 1..Len(signatures) :
                i # j => signatures[i].model_name # signatures[j].model_name) =>
              [k \in 1..Len(model_signatures) |-> model_signatures[k][2]]
                  = SignaturesInDiscoveryOrder

\* The keys of dissection_cache the dissection of the k-th path writes.
CacheKeysWritten(k) ==
    LET cached == dissect_model_structure(model_paths[k]).cached
    IN  {cached[i].model_name : i \in 1..Len(cached)}

\* C24: the dissections of two artifacts of a run share no mutable state:
\* none writes a location another writes, two artifacts of the same file
\* stem included.
C24_NoSharedLocation ==
    \A i, j \in 1..path_idx :
        i # j => CacheKeysWritten(i) \cap CacheKeysWritten(j) = {}

\* The registered signature of a name.
RegisteredSignature(name) == ValueAt(model_signatures, name)

\* The strength of a registered artifact in a domain as its signature has it
\* now, 0.0 when it has no capability in the domain.
CurrentStrength(name, d) ==
    LET ds == DomainStrengths(RegisteredSignature(name), d)
    IN  IF ds # <<>> THEN SumSeq(ds) \div Len(ds) ELSE 0

\* C27: after any calls of analyze_dissection_results on one architect the
\* capability matrix is dense and current: every row has one entry for every
\* registered artifact and no other, and every entry is the strength the
\* artifact has in the domain now, or 0.0.
C27_MatrixDenseAndCurrent ==
    \A d \in DOMAIN capability_matrix :
        /\ KeySet(capability_matrix[d]) = KeySet(model_signatures)
        /\ Len(capability_matrix[d]) = Len(model_signatures)
        /\ \A i \in 1..Len(capability_matrix[d]) :
              capability_matrix[d][i][2] =
                  CurrentStrength(capability_matrix[d][i][1], d)

\* C28: whenever a signature is registered, the domain_experts of the
\* blueprint have an entry for each of the six domains, every entry is the
\* name of a registered artifact, and the entry of a domain that is not in
\* the capability matrix is the artifact registered first.
C28_RoutingTotal ==
    model_signatures # <<>> =>
        /\ DOMAIN architecture_blueprint.domain_experts =
              {Domains[i] : i \in 1..Len(Domains)}
        /\ \A i \in 1..Len(Domains) :
              /\ architecture_blueprint.domain_experts[Domains[i]]
                    \in KeySet(model_signatures)
              /\ Domains[i] \notin DOMAIN capability_matrix =>
                    architecture_blueprint.domain_experts[Domains[i]]
                        = model_signatures[1][1]

\* Two artifacts registered by two calls, with mathematics in the matrix and
\* reasoning not.
C28_Witness ==
    /\ arch_status = "designed again"
    /\ Len(model_signatures) = 2
    /\ "mathematics" \in DOMAIN capability_matrix
    /\ "reasoning" \notin DOMAIN capability_matrix

\* The rules of the merger in their order, and the substrings of each.
RuleOrder == <<"embed", "attn", "ffn", "norm">>

RuleSubstrings(rule) ==
    CASE rule = "embed" -> {<<"e", "m", "b", "e", "d">>}
      [] rule = "attn"  -> {<<"a", "t", "t", "n">>,
                            <<"a", "t", "t", "e", "n", "t", "i", "o", "n">>}
      [] rule = "ffn"   -> {<<"m", "l", "p">>, <<"f", "f", "n">>}
      [] rule = "norm"  -> {<<"n", "o", "r", "m">>}

MatchingRules(name) ==
    {i \in 1..Len(RuleOrder) :
        \E sub \in RuleSubstrings(RuleOrder[i]) : Contains(lower(name), sub)}

\* The earliest rule a name matches, "other" when it matches none.
EarliestRule(name) ==
    IF MatchingRules(name) = {} THEN "other"
    ELSE RuleOrder[CHOOSE i \in MatchingRules(name) :
                      \A j \in MatchingRules(name) : i <= j]

\* Whether a layer is held in a bucket of a unified model.  (Layer norms and
\* general blocks share transformer_blocks; their keys tell them apart.)
HeldIn(bucket, item, um) ==
    CASE bucket = "embed" ->
            \E k \in DOMAIN um.embedding_layers : um.embedding_layers[k] = item
      [] bucket = "attn" ->
            \E k \in DOMAIN um.attention_layers : um.attention_layers[k] = item
      [] bucket = "ffn" ->
            \E k \in DOMAIN um.feed_forward_layers : um.feed_forward_layers[k] = item
      [] bucket = "norm" ->
            \E k \in DOMAIN um.transformer_blocks :
                k[1] = "norm" /\ um.transformer_blocks[k] = item
      [] bucket = "other" ->
            \E k \in DOMAIN um.transformer_blocks :
                k[1] = "block" /\ um.transformer_blocks[k] = item

Buckets == {RuleOrder[i] : i \in 1..Len(RuleOrder)} \cup {"other"}

\* C29: the merger puts a layer in the bucket of the earliest rule its name
\* matches, in the order embed, attn/attention, mlp/ffn, norm, other, the
\* case of the letters aside, and in no other bucket.
C29_FirstMatchingRule ==
    [][merged' = merged + 1 =>
          \A b \in Buckets :
              HeldIn(b, Current, unified_model') <=> b = EarliestRule(Current[2])]_vars

\* A layer whose name matches two rules was merged last, and is held with
\* the attention layers.
C29_Witness ==
    /\ merged > 0
    /\ Cardinality(MatchingRules(Items(all_weights)[merged][2])) > 1
    /\ HeldIn("attn", Items(all_weights)[merged], unified_model)

\* The place of a domain in the order of capability_tests, 0 for any other
\* name.
DomainPlace(d) ==
    IF d \in DomainSet THEN CHOOSE i \in 1..Len(Domains) : Domains[i] = d ELSE 0

\* C30: whatever the probes give, the capabilities of extract_capabilities
\* are of the six domains, in the order of the domains with at most one for
\* a domain, and every strength s has 0.3 < s <= 1.0.
C30_CapabilitiesWellFormed ==
    /\ \A i \in 1..Len(capabilities) :
          /\ DomainPlace(capabilities[i].domain) > 0
          /\ AboveThreshold(capabilities[i].strength)
          /\ capabilities[i].strength[2] > 0
          /\ capabilities[i].strength[1] <= capabilities[i].strength[2]
    /\ \A i, j \in 1..Len(capabilities) :
          i < j => DomainPlace(capabilities[i].domain)
                      < DomainPlace(capabilities[j].domain)

\* The run has returned capabilities for mathematics, of strength 1.0 by
\* the cap of score_response, and for language, and none for coding.
C30_Witness ==
    /\ probe_status = "returned"
    /\ Len(capabilities) > 1
    /\ capabilities[1].domain = "mathematics"
    /\ capabilities[1].strength[1] = capabilities[1].strength[2]
    /\ capabilities[2].domain = "language"

\* The container files of the discovered paths that can be loaded, those
\* inside the archives that open included: <<k, i>> is file i of path k.
WellFormedFiles ==
    {ki \in (1..Len(model_paths)) \X (1..MaxMembers) :
        /\ model_paths[ki[1]].opens
        /\ ki[2] <= Len(model_paths[ki[1]].files)
        /\ model_paths[ki[1]].files[ki[2]].loads}

\* C26: the container files inside a discovered archive are dissected like
\* the top-level ones: once the loop of main has ended there is one
\* signature for every well-formed container file, so k for an archive that
\* holds k of them.
C26_ArchiveContributesAll ==
    run_status \in {"analyzed", "raised", "returned"} =>
        Len(run_signatures) = Cardinality(WellFormedFiles)

-----------------------------------------------------------------------------
(* The claims about the resources of a dissection.                          *)

\* extract_gguf_weights has returned.
Extracted == pc = "done"

====
